---------------------------- MODULE Spec2Model ----------------------------
(***************************************************************************)
(* MYCELIUM Ecological Signal Translation Engine.                          *)
(*                                                                         *)
(* A model of translators/water_stress_translator.py and                   *)
(* translators/biodiversity_translator.py: one WaterStressTranslator and   *)
(* one BiodiversityTranslator instance, their stored previous_readings,    *)
(* and the calls a client can make on them.                                *)
(* Further specifications run single methods over wide argument ranges,   *)
(* run translate from two threads step by step (SpecInterleaved), and run  *)
(* a second instance of each translator beside the first (SpecTwin).       *)
(* SpecCommunity runs the collective pulse sessions of                     *)
(* community/community_interface.py, which call translate on the two       *)
(* translators registered with the community.                              *)
(*                                                                         *)
(* Numbers.  The Python code computes in floats.  A severity (stress,      *)
(* saturation, depletion, trend magnitude) is modelled as an exact         *)
(* rational with the fixed denominator One: the integer s stands for       *)
(* s / One.  One is chosen so that every quotient the code forms from the  *)
(* configured thresholds and the integer inputs is exact.  The only        *)
(* irrational step, x ** 0.7, is tabulated to the nearest 1 / One.         *)
(* Sensor inputs are integers in the unit named where they are defined.    *)
(*                                                                         *)
(* Python's None (and an absent dict key read with .get) is the empty      *)
(* sequence; a present value v is <<v>>.                                   *)
(*                                                                         *)
(* The pattern records carry the tag fields, pulse_count / layers,         *)
(* complexity and trend.  The water "intensity" (x ** 1.5), "duration"     *)
(* and the free-text "description" are not part of the model.              *)
(***************************************************************************)
EXTENDS Integers, Sequences, FiniteSets, TLC

VARIABLES
    water_previous_readings,  \* WaterStressTranslator.previous_readings
    bio_previous_readings,    \* BiodiversityTranslator.previous_readings
    lastCall,                 \* the most recent call: its arguments and what it returned or raised
    last_ok,                  \* history: severity computed by the latest successful translate of each translator,
                              \* and the pattern type the latest successful water translate returned
    in_flight,                \* per caller thread: the translate call it is inside, and how far it has run
    twin,                     \* a second instance of each translator, and the most recent call on it
    community                 \* CommunityInterface: users and channels, as far as collective pulses use them

vars == <<water_previous_readings, bio_previous_readings, lastCall, last_ok, in_flight, twin, community>>

---------------------------------------------------------------------------
(* Optional values *)

None == <<>>
Some(v) == <<v>>
Val(x) == x[1]

---------------------------------------------------------------------------
(* Arithmetic on severities *)

\* 1.0 as a severity.  2^6 * 3^2 * 5^3 * 7 * 11: a multiple of every
\* denominator the threshold tables, the weights and the mean produce.
One == 64 * 9 * 125 * 77

Min(a, b) == IF a < b THEN a ELSE b
Max(a, b) == IF a > b THEN a ELSE b
Abs(a) == IF a < 0 THEN 0 - a ELSE a

\* n / d as a severity, for integers n, d with d > 0.
Frac(n, d) == (n * One) \div d

\* x * (t / 10) for a severity x and a factor given in tenths (1.3 is 13).
Times10th(x, t) == (x * t) \div 10

\* Python's int(): truncation toward zero, of the severity-scaled x / One.
IntTrunc(x) == IF x >= 0 THEN x \div One ELSE 0 - ((0 - x) \div One)

\* (i / 450) ** 0.7 as a severity, i in 1..135, i.e. for every excess over 0.7
\* that (stress_threshold - soil_moisture) / stress_threshold can have.
Pow07Table ==
    << 77015, 125111, 166173, 203243, 237604, 269948, 300707, 330170, 358545,
       385989, 412619, 438532, 463804, 488499, 512671, 536363, 559614, 582459,
       604926, 627040, 648826, 670302, 691487, 712397, 733048, 753452, 773623,
       793570, 813304, 832836, 852173, 871324, 890296, 909096, 927731, 946207,
       964530, 982705, 1000736, 1018630, 1036390, 1054020, 1071525, 1088908, 1106173,
       1123324, 1140363, 1157293, 1174118, 1190840, 1207462, 1223987, 1240417, 1256753,
       1273000, 1289158, 1305229, 1321217, 1337121, 1352946, 1368691, 1384359, 1399951,
       1415469, 1430915, 1446289, 1461594, 1476831, 1492000, 1507104, 1522142, 1537118,
       1552031, 1566883, 1581675, 1596408, 1611083, 1625701, 1640263, 1654769, 1669222,
       1683620, 1697967, 1712261, 1726504, 1740698, 1754842, 1768937, 1782984, 1796984,
       1810937, 1824845, 1838707, 1852524, 1866298, 1880028, 1893715, 1907360, 1920963,
       1934526, 1948047, 1961528, 1974970, 1988373, 2001737, 2015063, 2028351, 2041602,
       2054816, 2067994, 2081136, 2094243, 2107315, 2120351, 2133354, 2146323, 2159258,
       2172160, 2185030, 2197867, 2210672, 2223445, 2236187, 2248897, 2261577, 2274227,
       2286847, 2299437, 2311997, 2324528, 2337030, 2349504, 2361950, 2374367, 2386756 >>

\* x ** 0.7 for a severity x in (0, 0.3] that is a multiple of 1/450.
Pow07(x) == Pow07Table[x \div (One \div 450)]

---------------------------------------------------------------------------
(* WaterStressTranslator: configuration *)

\* Variant: a wetland profile whose optimal range reaches past saturation.
ecosystem_moisture_ranges_overlapping ==
    [ temperate_forest |-> [optimal_low |-> 30, optimal_high |-> 45, stress_threshold |-> 25, saturation_threshold |-> 55],
      grassland        |-> [optimal_low |-> 20, optimal_high |-> 35, stress_threshold |-> 15, saturation_threshold |-> 45],
      desert_scrub     |-> [optimal_low |-> 8,  optimal_high |-> 20, stress_threshold |-> 5,  saturation_threshold |-> 30],
      wetland          |-> [optimal_low |-> 60, optimal_high |-> 95, stress_threshold |-> 50, saturation_threshold |-> 85],
      rainforest       |-> [optimal_low |-> 50, optimal_high |-> 70, stress_threshold |-> 45, saturation_threshold |-> 80] ]

ecosystem_moisture_ranges ==
    [ temperate_forest |-> [optimal_low |-> 30, optimal_high |-> 45, stress_threshold |-> 25, saturation_threshold |-> 55],
      grassland        |-> [optimal_low |-> 20, optimal_high |-> 35, stress_threshold |-> 15, saturation_threshold |-> 45],
      desert_scrub     |-> [optimal_low |-> 8,  optimal_high |-> 20, stress_threshold |-> 5,  saturation_threshold |-> 30],
      wetland          |-> [optimal_low |-> 60, optimal_high |-> 85, stress_threshold |-> 50, saturation_threshold |-> 95],
      rainforest       |-> [optimal_low |-> 50, optimal_high |-> 70, stress_threshold |-> 45, saturation_threshold |-> 80] ]

\* The severity thresholds of the code, as severities.
Tenth(k) == (One \div 10) * k
Hundredth(k) == (One \div 100) * k

---------------------------------------------------------------------------
(* WaterStressTranslator.analyze_water_stress *)

\* Variant: a reading on the saturation threshold counted as saturated.
Water_is_saturated_inclusive(soil_moisture, ranges) ==
    soil_moisture >= ranges.saturation_threshold

\* Lines 63-66: the saturation branch.
Water_is_saturated(soil_moisture, ranges) ==
    soil_moisture > ranges.saturation_threshold

Water_saturation_level(soil_moisture, ranges) ==
    IF soil_moisture > ranges.saturation_threshold
    THEN Min(One, Frac(soil_moisture - ranges.saturation_threshold,
                       100 - ranges.saturation_threshold))
    ELSE 0

\* Lines 73-76: at or below the stress threshold.
Water_severe_stress(soil_moisture, ranges) ==
    LET linear == Min(One, Frac(ranges.stress_threshold - soil_moisture,
                                ranges.stress_threshold))
    IN  IF linear > Tenth(7)
        THEN Min(One, Tenth(7) + Pow07(linear - Tenth(7)))
        ELSE linear

\* Lines 58-79: the stress before the secondary indicators.
Water_base_stress(soil_moisture, ranges) ==
    IF soil_moisture > ranges.saturation_threshold THEN 0
    ELSE IF soil_moisture < ranges.optimal_low
         THEN IF soil_moisture <= ranges.stress_threshold
              THEN Water_severe_stress(soil_moisture, ranges)
              ELSE Frac(ranges.optimal_low - soil_moisture,
                        ranges.optimal_low - ranges.stress_threshold)
         ELSE 0

\* Variant: no adjustment for moderate plant stress.
Water_leaf_rule_severe_only(stress_level, ind) ==
    IF ind.leaf_water_potential = None THEN stress_level
    ELSE IF Val(ind.leaf_water_potential) < -20 THEN Min(One, stress_level + Tenth(2))
    ELSE stress_level

\* Lines 84-90.  leaf_water_potential is in tenths (-20 is -2.0).
Water_leaf_rule(stress_level, ind) ==
    IF ind.leaf_water_potential = None THEN stress_level
    ELSE IF Val(ind.leaf_water_potential) < -20 THEN Min(One, stress_level + Tenth(2))
    ELSE IF Val(ind.leaf_water_potential) < -15 THEN Min(One, stress_level + Tenth(1))
    ELSE stress_level

\* Variant: the stream-flow factor without its min(1.0, ...).
Water_stream_rule_unclamped(stress_level, ind) ==
    IF ind.stream_flow # None /\ Val(ind.stream_flow) < 5
    THEN Times10th(stress_level, 13)
    ELSE stress_level

\* Lines 93-95.  stream_flow is in tenths of the normal flow (5 is 0.5).
Water_stream_rule(stress_level, ind) ==
    IF ind.stream_flow # None /\ Val(ind.stream_flow) < 5
    THEN Min(One, Times10th(stress_level, 13))
    ELSE stress_level

\* Lines 98-102.  Depths are in tenths; the normal depth defaults to 0.
Water_table_rule(stress_level, ind) ==
    LET normal == IF ind.normal_water_table_depth = None THEN 0
                  ELSE Val(ind.normal_water_table_depth)
    IN  IF ind.water_table_depth # None /\ Val(ind.water_table_depth) * 10 > normal * 15
        THEN Min(One, stress_level + Hundredth(15))
        ELSE stress_level

\* Lines 105-108.  precipitation_deficit is a percentage.
Water_precip_rule(stress_level, ind) ==
    IF ind.precipitation_deficit # None /\ Val(ind.precipitation_deficit) > 30
    THEN Min(One, stress_level + Times10th(Frac(Val(ind.precipitation_deficit), 100), 2))
    ELSE stress_level

\* A dict with no entries: every .get answers None.
EmptyIndicators ==
    [leaf_water_potential |-> None, stream_flow |-> None, water_table_depth |-> None,
     normal_water_table_depth |-> None, precipitation_deficit |-> None]

\* Python truthiness of additional_indicators: None and {} are false.
Water_has_indicators(additional_indicators) ==
    additional_indicators # None /\ Val(additional_indicators) # EmptyIndicators

\* Variant: the stream-flow factor applied before the leaf adjustment.
Water_secondary_stream_first(stress_level, is_saturated, additional_indicators) ==
    IF Water_has_indicators(additional_indicators)
    THEN LET ind == Val(additional_indicators)
         IN  Water_precip_rule(
               Water_table_rule(
                 Water_leaf_rule(
                   Water_stream_rule(stress_level, ind), ind), ind), ind)
    ELSE stress_level

\* Lines 82-108: the block is entered on the truthiness of additional_indicators
\* alone; it is a plain `if`, not a branch of the saturation if / elif.
Water_secondary(stress_level, is_saturated, additional_indicators) ==
    IF Water_has_indicators(additional_indicators)
    THEN LET ind == Val(additional_indicators)
         IN  Water_precip_rule(
               Water_table_rule(
                 Water_stream_rule(
                   Water_leaf_rule(stress_level, ind), ind), ind), ind)
    ELSE stress_level

Water_known_ecosystem(ecosystem_type) ==
    ecosystem_type \in DOMAIN ecosystem_moisture_ranges

\* Lines 34-110.  raised = TRUE: ValueError("Unknown ecosystem type").
analyze_water_stress(soil_moisture, ecosystem_type, additional_indicators) ==
    IF ~Water_known_ecosystem(ecosystem_type)
    THEN [raised |-> TRUE, stress_level |-> 0, is_saturated |-> FALSE, saturation_level |-> 0]
    ELSE LET ranges == ecosystem_moisture_ranges[ecosystem_type]
             sat == Water_is_saturated(soil_moisture, ranges)
         IN  [raised |-> FALSE,
              stress_level |-> Water_secondary(Water_base_stress(soil_moisture, ranges),
                                               sat, additional_indicators),
              is_saturated |-> sat,
              saturation_level |-> Water_saturation_level(soil_moisture, ranges)]

---------------------------------------------------------------------------
(* WaterStressTranslator.generate_feedback_pattern *)

\* Variant: the gate with stress_level <= 0.3.
Water_recovery_gate_inclusive(stress_level, previous_stress) ==
    /\ previous_stress # None
    /\ stress_level < Val(previous_stress)
    /\ Val(previous_stress) > Tenth(3)
    /\ stress_level <= Tenth(3)

\* Variant: the gate without previous_stress > 0.3.
Water_recovery_gate_any_previous(stress_level, previous_stress) ==
    /\ previous_stress # None
    /\ stress_level < Val(previous_stress)
    /\ stress_level < Tenth(3)

\* Line 126: the recovery gate.
Water_recovery_gate(stress_level, previous_stress) ==
    /\ previous_stress # None
    /\ stress_level < Val(previous_stress)
    /\ Val(previous_stress) > Tenth(3)
    /\ stress_level < Tenth(3)

\* Python's round() of a non-negative x / One: to the nearest integer, a tie
\* to the even one.
RoundHalfEven(x) ==
    LET whole == x \div One
        rest == x % One
    IN  IF 2 * rest < One THEN whole
        ELSE IF 2 * rest > One THEN whole + 1
        ELSE IF whole % 2 = 0 THEN whole ELSE whole + 1

\* Variant: round() in place of int().
Water_pulse_count_rounded(stress_level) ==
    Max(2, Min(5, RoundHalfEven(stress_level * 6)))

\* Line 171: max(2, min(5, int(stress_level * 6))).
Water_pulse_count(stress_level) ==
    Max(2, Min(5, IntTrunc(stress_level * 6)))

\* Variant: the saturation branch tested before the recovery branch.
Water_pattern_type_pressure_first(stress_level, is_saturated, previous_stress) ==
    IF is_saturated THEN "pressure"
    ELSE IF previous_stress # None /\ stress_level < Val(previous_stress)
            /\ Val(previous_stress) > Tenth(3) /\ stress_level < Tenth(3)
         THEN "recovery"
    ELSE IF stress_level = 0 THEN "affirmation"
    ELSE "tension"

\* Lines 125-186: the type chosen, first match first.
Water_pattern_type(stress_level, is_saturated, previous_stress) ==
    IF Water_recovery_gate(stress_level, previous_stress) THEN "recovery"
    ELSE IF stress_level = 0 /\ ~is_saturated THEN "affirmation"
    ELSE IF is_saturated THEN "pressure"
    ELSE "tension"

\* Lines 112-186.  trend is absent (None) in every pattern this returns.
Water_generate_feedback_pattern(stress_level, is_saturated, saturation_level, previous_stress) ==
    LET type == Water_pattern_type(stress_level, is_saturated, previous_stress)
    IN  CASE type = "recovery" ->
               [type |-> "recovery", rhythm |-> "slow_release", pulse_count |-> 3,
                frequency |-> "medium_low", location |-> "whole_body",
                emotion |-> "relief", trend |-> None]
          [] type = "affirmation" ->
               [type |-> "affirmation", rhythm |-> "steady", pulse_count |-> 1,
                frequency |-> "low", location |-> "whole_body",
                emotion |-> "contentment", trend |-> None]
          [] type = "pressure" ->
               [type |-> "pressure", rhythm |-> "wave", pulse_count |-> 2,
                frequency |-> "low", location |-> "chest_and_limbs",
                emotion |-> "heaviness", trend |-> None]
          [] OTHER ->
               [type |-> "tension",
                rhythm |-> IF stress_level > Tenth(7) THEN "staccato" ELSE "intermittent",
                pulse_count |-> Water_pulse_count(stress_level),
                frequency |-> "medium_high", location |-> "throat_and_chest",
                emotion |-> IF stress_level < Tenth(5) THEN "concern" ELSE "urgency",
                trend |-> None]

---------------------------------------------------------------------------
(* The trend annotation both translate methods add *)

\* Variant: abs(trend) >= threshold.
Trend_inclusive(severity, previous, threshold) ==
    IF previous = None THEN None
    ELSE LET trend == severity - Val(previous)
         IN  IF Abs(trend) >= threshold
             THEN Some([direction |-> IF trend < 0 THEN "improving" ELSE "worsening",
                        magnitude |-> Abs(trend)])
             ELSE None

\* water lines 231-237, biodiversity lines 247-253: the value of
\* feedback["trend"], None when the key is not set.
Trend(severity, previous, threshold) ==
    IF previous = None THEN None
    ELSE LET trend == severity - Val(previous)
         IN  IF Abs(trend) > threshold
             THEN Some([direction |-> IF trend < 0 THEN "improving" ELSE "worsening",
                        magnitude |-> Abs(trend)])
             ELSE None

\* water line 233: abs(trend) > 0.1
Water_trend_threshold == Tenth(1)

\* water line 227, biodiversity line 243: timestamp or time.time().  A timestamp
\* of None or 0 is false in Python and the clock reading `now` is stored.
StoredTimestamp(timestamp, now) ==
    IF timestamp = None \/ Val(timestamp) = 0 THEN now ELSE Val(timestamp)

---------------------------------------------------------------------------
(* WaterStressTranslator.translate *)

\* Variant: `not soil_moisture`, which also rejects a reading of 0.
Water_missing_falsy(sensor_data) ==
    \/ sensor_data.soil_moisture = None
    \/ Val(sensor_data.soil_moisture) = 0
    \/ sensor_data.ecosystem_type = None

\* Line 204: the required-data check.
Water_missing(sensor_data) ==
    sensor_data.soil_moisture = None \/ sensor_data.ecosystem_type = None

\* Variant: an unconfigured ecosystem falls back to defaults instead of raising.
Water_outcome_default_ecosystem(sensor_data) ==
    IF sensor_data.soil_moisture = None \/ sensor_data.ecosystem_type = None
    THEN "MissingSensorData"
    ELSE "ok"

\* What translate raises, "ok" when it returns.  Lines 204-205 come before the
\* ecosystem lookup of lines 49-50.
Water_outcome(sensor_data) ==
    IF Water_missing(sensor_data) THEN "MissingSensorData"
    ELSE IF ~Water_known_ecosystem(Val(sensor_data.ecosystem_type)) THEN "UnknownEcosystemType"
    ELSE "ok"

\* A store that keeps the stress only of calls given a timestamp.
Water_new_readings_if_stamped(sensor_data, stress_level, timestamp, now) ==
    [soil_moisture |-> sensor_data.soil_moisture,
     stress_level |-> IF timestamp = None THEN None ELSE Some(stress_level),
     timestamp |-> Some(StoredTimestamp(timestamp, now))]

\* Variant: the stress before the secondary indicators is what is stored.
Water_new_readings_unadjusted(sensor_data, stress_level, timestamp, now) ==
    [soil_moisture |-> sensor_data.soil_moisture,
     stress_level |->
         Some(Water_base_stress(Val(sensor_data.soil_moisture),
                                ecosystem_moisture_ranges[Val(sensor_data.ecosystem_type)])),
     timestamp |-> Some(StoredTimestamp(timestamp, now))]

\* Lines 224-228: the readings stored by a call that got that far.
Water_new_readings(sensor_data, stress_level, timestamp, now) ==
    [soil_moisture |-> sensor_data.soil_moisture,
     stress_level |-> Some(stress_level),
     timestamp |-> Some(StoredTimestamp(timestamp, now))]

\* Variant: a call that raises clears the stored readings.
Water_readings_reset_on_error(outcome, old, new) ==
    IF outcome = "ok" THEN new
    ELSE [soil_moisture |-> None, stress_level |-> None, timestamp |-> None]

\* previous_readings after the call: both raises (lines 205 and 50) come
\* before the assignment of line 224.
Water_readings_after(outcome, old, new) ==
    IF outcome = "ok" THEN new ELSE old

\* Lines 188-239: what translate leaves in previous_readings and what it
\* returns or raises, given the previous_readings it finds.
Water_translate_on(previous_readings, sensor_data, timestamp, now) ==
    LET outcome == Water_outcome(sensor_data)
        previous_stress == previous_readings.stress_level
    IN  IF outcome # "ok"
        THEN [previous_readings |->
                  Water_readings_after(outcome, previous_readings, previous_readings),
              call |-> [op |-> "Water.translate", sensor_data |-> sensor_data,
                        timestamp |-> timestamp, outcome |-> outcome,
                        previous |-> None, analysis |-> None, feedback |-> None]]
        ELSE LET a == analyze_water_stress(Val(sensor_data.soil_moisture),
                                           Val(sensor_data.ecosystem_type),
                                           sensor_data.additional_indicators)
                 pattern == Water_generate_feedback_pattern(
                                a.stress_level, a.is_saturated, a.saturation_level,
                                previous_stress)
                 feedback == [pattern EXCEPT !.trend =
                                 Trend(a.stress_level, previous_stress, Water_trend_threshold)]
             IN  [previous_readings |->
                      Water_readings_after(outcome, previous_readings,
                          Water_new_readings(sensor_data, a.stress_level, timestamp, now)),
                  call |-> [op |-> "Water.translate", sensor_data |-> sensor_data,
                            timestamp |-> timestamp, outcome |-> outcome,
                            previous |-> previous_stress, analysis |-> Some(a),
                            feedback |-> Some(feedback)]]

\* The severity a translate call computed, None when it raised.
ComputedSeverity(call) ==
    IF call.outcome # "ok" THEN None
    ELSE IF call.op = "Water.translate" THEN Some(Val(call.analysis).stress_level)
    ELSE Some(Val(call.analysis).depletion_level)

\* The type of the pattern a translate call returned, None when it raised.
ReturnedType(call) ==
    IF call.outcome # "ok" THEN None ELSE Some(Val(call.feedback).type)

\* One translate call on the water translator, run without interruption.
Water_translate(sensor_data, timestamp, now) ==
    LET r == Water_translate_on(water_previous_readings, sensor_data, timestamp, now)
    IN  /\ water_previous_readings' = r.previous_readings
        /\ lastCall' = r.call
        /\ last_ok' = IF r.call.outcome = "ok"
                      THEN [last_ok EXCEPT !.water = ComputedSeverity(r.call),
                                           !.water_type = ReturnedType(r.call)]
                      ELSE last_ok
        /\ UNCHANGED <<bio_previous_readings, in_flight, twin, community>>

---------------------------------------------------------------------------
(* BiodiversityTranslator: configuration *)

\* shannon_index thresholds and readings are in tenths (25 is 2.5).
diversity_thresholds ==
    [ temperate_forest |->
        [species_count |-> [optimal_low |-> 20, optimal_high |-> 50, low_threshold |-> 10],
         bird_species  |-> [optimal_low |-> 15, optimal_high |-> 30, low_threshold |-> 8],
         insect_orders |-> [optimal_low |-> 8,  optimal_high |-> 12, low_threshold |-> 5],
         shannon_index |-> [optimal_low |-> 25, optimal_high |-> 40, low_threshold |-> 20]],
      grassland |->
        [species_count |-> [optimal_low |-> 15, optimal_high |-> 40, low_threshold |-> 8],
         bird_species  |-> [optimal_low |-> 10, optimal_high |-> 25, low_threshold |-> 6],
         insect_orders |-> [optimal_low |-> 7,  optimal_high |-> 10, low_threshold |-> 4],
         shannon_index |-> [optimal_low |-> 20, optimal_high |-> 35, low_threshold |-> 15]],
      wetland |->
        [species_count |-> [optimal_low |-> 25, optimal_high |-> 60, low_threshold |-> 15],
         bird_species  |-> [optimal_low |-> 20, optimal_high |-> 40, low_threshold |-> 12],
         insect_orders |-> [optimal_low |-> 8,  optimal_high |-> 12, low_threshold |-> 5],
         shannon_index |-> [optimal_low |-> 28, optimal_high |-> 45, low_threshold |-> 22]],
      desert_scrub |->
        [species_count |-> [optimal_low |-> 10, optimal_high |-> 30, low_threshold |-> 5],
         bird_species  |-> [optimal_low |-> 8,  optimal_high |-> 20, low_threshold |-> 4],
         insect_orders |-> [optimal_low |-> 5,  optimal_high |-> 8,  low_threshold |-> 3],
         shannon_index |-> [optimal_low |-> 15, optimal_high |-> 30, low_threshold |-> 10]] ]

\* The weights of lines 75/79, 93/96, 109/112, 125/128, in tenths.
indicator_weights ==
    [ species_count |-> [below |-> 12, near |-> 8],
      bird_species  |-> [below |-> 10, near |-> 7],
      insect_orders |-> [below |-> 11, near |-> 8],
      shannon_index |-> [below |-> 13, near |-> 9] ]

---------------------------------------------------------------------------
(* BiodiversityTranslator.analyze_biodiversity *)

\* Lines 72-82 (and 91-98, 107-114, 123-130): the score one indicator appends.
Bio_indicator_score(value, th, weight) ==
    IF value < th.low_threshold
    THEN Times10th(Min(One, Frac(th.low_threshold - value, th.low_threshold)), weight.below)
    ELSE IF value < th.optimal_low
         THEN Times10th(Frac(th.optimal_low - value, th.optimal_low - th.low_threshold),
                        weight.near)
         ELSE 0

\* Variant: the acoustic reading itself taken as the score.
Bio_acoustic_score_direct(acoustic) == Max(0, Frac(acoustic, 100))

\* Lines 134-136: max(0, 1 - acoustic); acoustic_diversity is in hundredths.
Bio_acoustic_score(acoustic) == Max(0, One - Frac(acoustic, 100))

CountIndicators == <<"species_count", "bird_species", "insect_orders", "shannon_index">>

RECURSIVE Bio_count_scores(_, _, _)
\* Lines 66-130: depletion_scores after the four threshold indicators, in order.
Bio_count_scores(data, thresholds, i) ==
    IF i > Len(CountIndicators) THEN <<>>
    ELSE LET k == CountIndicators[i]
             rest == Bio_count_scores(data, thresholds, i + 1)
         IN  IF data[k] = None THEN rest
             ELSE <<Bio_indicator_score(Val(data[k]), thresholds[k], indicator_weights[k])>>
                  \o rest

\* Lines 63-137: depletion_scores.
Bio_depletion_scores(data, thresholds) ==
    Bio_count_scores(data, thresholds, 1)
    \o (IF data.acoustic_diversity = None THEN <<>>
        ELSE <<Bio_acoustic_score(Val(data.acoustic_diversity))>>)

RECURSIVE SumSeq(_)
SumSeq(q) == IF q = <<>> THEN 0 ELSE Head(q) + SumSeq(Tail(q))

\* Variant: the sum divided by the number of indicators there can be.
Bio_mean_over_all(depletion_scores) ==
    IF depletion_scores # <<>>
    THEN SumSeq(depletion_scores) \div (Len(CountIndicators) + 1)
    ELSE Tenth(5)

\* Lines 140-144: the mean of the scores, 0.5 when there is none.
Bio_mean(depletion_scores) ==
    IF depletion_scores # <<>>
    THEN SumSeq(depletion_scores) \div Len(depletion_scores)
    ELSE Tenth(5)

Bio_known_ecosystem(ecosystem_type) ==
    ecosystem_type \in DOMAIN diversity_thresholds

\* Lines 48-144.  raised = TRUE: ValueError("Unknown ecosystem type").
analyze_biodiversity(biodiversity_data, ecosystem_type) ==
    IF ~Bio_known_ecosystem(ecosystem_type)
    THEN [raised |-> TRUE, depletion_level |-> 0]
    ELSE [raised |-> FALSE,
          depletion_level |->
              Bio_mean(Bio_depletion_scores(biodiversity_data,
                                            diversity_thresholds[ecosystem_type]))]

---------------------------------------------------------------------------
(* BiodiversityTranslator.generate_feedback_pattern *)

\* Line 158.
Bio_recovery_gate(depletion_level, previous_depletion) ==
    /\ previous_depletion # None
    /\ depletion_level < Val(previous_depletion)
    /\ Val(previous_depletion) > Tenth(3)

\* Variant: the depletion thresholds 0.2 and 0.5 taken inclusively.
Bio_pattern_type_inclusive(depletion_level, previous_depletion) ==
    IF Bio_recovery_gate(depletion_level, previous_depletion) THEN "expanding_harmony"
    ELSE IF depletion_level <= Tenth(2) THEN "harmony"
    ELSE IF depletion_level <= Tenth(5) THEN "simplified_harmony"
    ELSE "monotony"

\* Lines 158-211: the type chosen, first match first.
Bio_pattern_type(depletion_level, previous_depletion) ==
    IF Bio_recovery_gate(depletion_level, previous_depletion) THEN "expanding_harmony"
    ELSE IF depletion_level < Tenth(2) THEN "harmony"
    ELSE IF depletion_level < Tenth(5) THEN "simplified_harmony"
    ELSE "monotony"

\* max(lo, int((1 - depletion_level) * k)), lines 166, 179, 192, 205.
Bio_layers(depletion_level, k, lo) ==
    Max(lo, IntTrunc((One - depletion_level) * k))

\* base_complexity + (max_complexity - base_complexity) * (1 - depletion_level),
\* a severity-scaled number; lines 39-40, 164, 203.
Bio_scaled_complexity(depletion_level) ==
    3 * One + 7 * (One - depletion_level)

\* Lines 146-211.  expanding_harmony has no frequency_range key.
Bio_generate_feedback_pattern(depletion_level, previous_depletion) ==
    LET type == Bio_pattern_type(depletion_level, previous_depletion)
    IN  CASE type = "expanding_harmony" ->
               [type |-> "expanding_harmony",
                complexity |-> Bio_scaled_complexity(depletion_level),
                rhythm |-> "building", layers |-> Bio_layers(depletion_level, 8, 2),
                frequency_range |-> None, location |-> "whole_body",
                emotion |-> "hope", trend |-> None]
          [] type = "harmony" ->
               [type |-> "harmony", complexity |-> 8 * One,
                rhythm |-> "layered", layers |-> Bio_layers(depletion_level, 10, 3),
                frequency_range |-> Some("full_spectrum"), location |-> "whole_body",
                emotion |-> "wonder", trend |-> None]
          [] type = "simplified_harmony" ->
               [type |-> "simplified_harmony", complexity |-> 5 * One,
                rhythm |-> "regular", layers |-> Bio_layers(depletion_level, 6, 2),
                frequency_range |-> Some("limited"), location |-> "torso_and_arms",
                emotion |-> "contentment", trend |-> None]
          [] OTHER ->
               [type |-> "monotony",
                complexity |-> Bio_scaled_complexity(depletion_level),
                rhythm |-> "repetitive", layers |-> Bio_layers(depletion_level, 3, 1),
                frequency_range |-> Some("narrow"), location |-> "arms_only",
                emotion |-> IF depletion_level < Tenth(7) THEN "concern" ELSE "alarm",
                trend |-> None]

---------------------------------------------------------------------------
(* BiodiversityTranslator.translate *)

\* biodiversity line 249: abs(trend) > 0.05
Bio_trend_threshold == Hundredth(5)

\* Lines 224-225: sensor_data without its ecosystem_type and timestamp keys is
\* empty.  other_key: sensor_data has a key analyze_biodiversity does not read.
Bio_data_empty(sensor_data) ==
    /\ \A i \in 1..Len(CountIndicators) : sensor_data[CountIndicators[i]] = None
    /\ sensor_data.acoustic_diversity = None
    /\ ~sensor_data.other_key

\* Line 228.
Bio_missing(sensor_data) ==
    Bio_data_empty(sensor_data) \/ sensor_data.ecosystem_type = None

\* What translate raises, "ok" when it returns: line 228, then lines 59-60.
Bio_outcome(sensor_data) ==
    IF Bio_missing(sensor_data) THEN "MissingSensorData"
    ELSE IF ~Bio_known_ecosystem(Val(sensor_data.ecosystem_type)) THEN "UnknownEcosystemType"
    ELSE "ok"

\* Lines 241-244.
Bio_new_readings(depletion_level, timestamp, now) ==
    [depletion_level |-> Some(depletion_level),
     timestamp |-> Some(StoredTimestamp(timestamp, now))]

\* previous_readings after the call: both raises (lines 229 and 60) come
\* before the assignment of line 241.
Bio_readings_after(outcome, old, new) ==
    IF outcome = "ok" THEN new ELSE old

\* Lines 213-255: what translate leaves in previous_readings and what it
\* returns or raises, given the previous_readings it finds.
Bio_translate_on(previous_readings, sensor_data, timestamp, now) ==
    LET outcome == Bio_outcome(sensor_data)
        previous_depletion == previous_readings.depletion_level
    IN  IF outcome # "ok"
        THEN [previous_readings |->
                  Bio_readings_after(outcome, previous_readings, previous_readings),
              call |-> [op |-> "Bio.translate", sensor_data |-> sensor_data,
                        timestamp |-> timestamp, outcome |-> outcome,
                        previous |-> None, analysis |-> None, feedback |-> None]]
        ELSE LET a == analyze_biodiversity(sensor_data, Val(sensor_data.ecosystem_type))
                 pattern == Bio_generate_feedback_pattern(a.depletion_level, previous_depletion)
                 feedback == [pattern EXCEPT !.trend =
                                 Trend(a.depletion_level, previous_depletion, Bio_trend_threshold)]
             IN  [previous_readings |->
                      Bio_readings_after(outcome, previous_readings,
                          Bio_new_readings(a.depletion_level, timestamp, now)),
                  call |-> [op |-> "Bio.translate", sensor_data |-> sensor_data,
                            timestamp |-> timestamp, outcome |-> outcome,
                            previous |-> previous_depletion, analysis |-> Some(a),
                            feedback |-> Some(feedback)]]

\* One translate call on the biodiversity translator, run without interruption.
Bio_translate(sensor_data, timestamp, now) ==
    LET r == Bio_translate_on(bio_previous_readings, sensor_data, timestamp, now)
    IN  /\ bio_previous_readings' = r.previous_readings
        /\ lastCall' = r.call
        /\ last_ok' = IF r.call.outcome = "ok"
                      THEN [last_ok EXCEPT !.bio = ComputedSeverity(r.call)]
                      ELSE last_ok
        /\ UNCHANGED <<water_previous_readings, in_flight, twin, community>>

---------------------------------------------------------------------------
(* The calls a client makes: argument values *)

\* Explicit timestamps are 0..MaxTimestamp; the clock reads later than all.
MaxTimestamp == 1
Timestamps == {None} \cup {Some(t) : t \in 0..MaxTimestamp}
ClockReadings == {MaxTimestamp + 1}

\* An ecosystem name neither threshold table has.  ("rainforest" is a key of
\* the water table only.)
UnknownEcosystem == "tundra"

Indicators(leaf, stream, table, normal, precip) ==
    [leaf_water_potential |-> leaf, stream_flow |-> stream, water_table_depth |-> table,
     normal_water_table_depth |-> normal, precipitation_deficit |-> precip]

WaterSensorData(soil_moisture, ecosystem_type, additional_indicators) ==
    [soil_moisture |-> soil_moisture, ecosystem_type |-> ecosystem_type,
     additional_indicators |-> additional_indicators]

\* The translate runs of the water translator.  Stress computed, in order:
\* 1.0, 0.5, 0.25, 0.3, 0 (saturated), 0.2 (saturated), 0.31, 0;
\* then the calls that raise.
WaterTable(depth) == Some(Indicators(None, None, Some(depth), None, None))  \* + 0.15
Leaf(potential) == Some(Indicators(Some(potential), None, None, None, None)) \* -25: + 0.2

WaterCalls ==
    { WaterSensorData(Some(0),  Some("wetland"), None),
      WaterSensorData(Some(55), Some("wetland"), None),
      WaterSensorData(Some(59), Some("wetland"), WaterTable(30)),
      WaterSensorData(Some(59), Some("wetland"), Leaf(-25)),
      WaterSensorData(Some(98), Some("wetland"), None),
      WaterSensorData(Some(98), Some("wetland"), Leaf(-25)),
      WaterSensorData(Some(21), Some("temperate_forest"), WaterTable(30)),
      WaterSensorData(Some(55), Some("temperate_forest"), None),
      WaterSensorData(None,     Some("wetland"), None),
      WaterSensorData(Some(0),  None, None),
      WaterSensorData(None,     None, Leaf(-25)),
      WaterSensorData(Some(0),  Some(UnknownEcosystem), None),
      WaterSensorData(None,     Some(UnknownEcosystem), None) }

BioSensorData(ecosystem_type, species, birds, insects, shannon, acoustic, other) ==
    [ecosystem_type |-> ecosystem_type, species_count |-> species, bird_species |-> birds,
     insect_orders |-> insects, shannon_index |-> shannon, acoustic_diversity |-> acoustic,
     other_key |-> other]

\* The translate runs of the biodiversity translator.  Depletion computed, in
\* order: 1.2, 0.12, 0.495, 0.07 (the module's own example), 0.5 (no
\* indicator read); then the calls that raise.
BioCalls ==
    { BioSensorData(Some("temperate_forest"), Some(0),  None, None, None, None, FALSE),
      BioSensorData(Some("temperate_forest"), Some(9),  None, None, None, None, FALSE),
      BioSensorData(Some("temperate_forest"), Some(12), None, None, None, Some(65), FALSE),
      BioSensorData(Some("temperate_forest"), Some(28), Some(18), Some(8), Some(28), Some(65), FALSE),
      BioSensorData(Some("temperate_forest"), None, None, None, None, None, TRUE),
      BioSensorData(None, Some(12), None, None, None, None, FALSE),
      BioSensorData(Some("temperate_forest"), None, None, None, None, None, FALSE),
      BioSensorData(Some("rainforest"), Some(12), None, None, None, None, FALSE),
      BioSensorData(Some(UnknownEcosystem), None, None, None, None, None, FALSE) }

---------------------------------------------------------------------------
(* The translators in use *)

NoCall == [op |-> "none", sensor_data |-> None, timestamp |-> None, outcome |-> "none",
           previous |-> None, analysis |-> None, feedback |-> None]

\* The threads that may be inside translate of the shared instances.
Callers == {"thread_1", "thread_2"}

\* A thread outside translate.
Idle == [pc |-> "idle", op |-> "none", sensor_data |-> None, timestamp |-> None,
         previous |-> None, overlapped |-> FALSE, result |-> None]

NoneInFlight == [c \in Callers |-> Idle]

\* The second instances as __init__ leaves them, no call made on them.
FreshTwin ==
    [water_previous_readings |->
         [soil_moisture |-> None, stress_level |-> None, timestamp |-> None],
     bio_previous_readings |-> [depletion_level |-> None, timestamp |-> None],
     lastCall |-> NoCall]

\* community_interface.py lines 22-48: no user, no session, no reflection
\* circle.  Notifications, badges, lore and the calendar are not modelled.
FreshCommunity ==
    [users |-> << >>, collective_pulse |-> << >>, reflection_circle |-> << >>]

\* water lines 28-32, biodiversity lines 43-46: the state __init__ leaves.
Init ==
    /\ water_previous_readings =
           [soil_moisture |-> None, stress_level |-> None, timestamp |-> None]
    /\ bio_previous_readings = [depletion_level |-> None, timestamp |-> None]
    /\ lastCall = NoCall
    /\ last_ok = [water |-> None, bio |-> None, water_type |-> None]
    /\ in_flight = NoneInFlight
    /\ twin = FreshTwin
    /\ community = FreshCommunity

\* A record of one call, in the shape of lastCall.
Call(op, args, timestamp, outcome, previous, analysis, feedback) ==
    [op |-> op, sensor_data |-> args, timestamp |-> timestamp, outcome |-> outcome,
     previous |-> previous, analysis |-> analysis, feedback |-> feedback]

\* A direct call of analyze_water_stress: it reads and writes no attribute.
Water_analyze_call(args) ==
    LET a == analyze_water_stress(args.soil_moisture, args.ecosystem_type,
                                  args.additional_indicators)
    IN  /\ lastCall' = Call("Water.analyze_water_stress", args, None,
                            IF a.raised THEN "UnknownEcosystemType" ELSE "ok",
                            None, IF a.raised THEN None ELSE Some(a), None)
        /\ UNCHANGED <<water_previous_readings, bio_previous_readings, last_ok, in_flight, twin, community>>

\* A direct call of analyze_biodiversity.
Bio_analyze_call(args) ==
    LET a == analyze_biodiversity(args.biodiversity_data, args.ecosystem_type)
    IN  /\ lastCall' = Call("Bio.analyze_biodiversity", args, None,
                            IF a.raised THEN "UnknownEcosystemType" ELSE "ok",
                            None, IF a.raised THEN None ELSE Some(a), None)
        /\ UNCHANGED <<water_previous_readings, bio_previous_readings, last_ok, in_flight, twin, community>>

WaterAnalyzeCalls ==
    { [soil_moisture |-> m, ecosystem_type |-> e, additional_indicators |-> None] :
          m \in {21, 98}, e \in {"wetland", UnknownEcosystem} }

BioAnalyzeCalls ==
    { [biodiversity_data |->
           BioSensorData(None, Some(12), None, None, None, None, FALSE),
       ecosystem_type |-> e] :
          e \in {"temperate_forest", "rainforest", UnknownEcosystem} }

CallWaterTranslate ==
    \E d \in WaterCalls, t \in Timestamps, now \in ClockReadings : Water_translate(d, t, now)

CallBioTranslate ==
    \E d \in BioCalls, t \in Timestamps, now \in ClockReadings : Bio_translate(d, t, now)

CallWaterAnalyze == \E args \in WaterAnalyzeCalls : Water_analyze_call(args)

CallBioAnalyze == \E args \in BioAnalyzeCalls : Bio_analyze_call(args)

Next ==
    \/ CallWaterTranslate
    \/ CallBioTranslate
    \/ CallWaterAnalyze
    \/ CallBioAnalyze

Spec == Init /\ [][Next]_vars

---------------------------------------------------------------------------
(* analyze_water_stress over its whole input range *)

\* water line 39: "Percentage of soil moisture (0-100)".
MaxSoilMoisture == 100

\* Every presence pattern of the secondary indicators, with values on both
\* sides of each rule's threshold.
AllIndicators ==
    {None} \cup
    { Some(Indicators(leaf, stream, tn[1], tn[2], precip)) :
          leaf \in {None, Some(-25), Some(-18), Some(-10)},
          stream \in {None, Some(3), Some(8)},
          tn \in { <<None, None>>, <<Some(30), None>>, <<Some(30), Some(20)>>,
                   <<Some(31), Some(20)>>, <<None, Some(20)>> },
          precip \in {None, Some(25), Some(40), Some(100)} }

AllWaterEcosystems == DOMAIN ecosystem_moisture_ranges \cup {UnknownEcosystem}

InitWaterAnalyze ==
    /\ water_previous_readings =
           [soil_moisture |-> None, stress_level |-> None, timestamp |-> None]
    /\ bio_previous_readings = [depletion_level |-> None, timestamp |-> None]
    /\ last_ok = [water |-> None, bio |-> None, water_type |-> None]
    /\ in_flight = NoneInFlight
    /\ twin = FreshTwin
    /\ community = FreshCommunity
    /\ lastCall \in
           { Call("Water.analyze_water_stress",
                  [soil_moisture |-> m, ecosystem_type |-> e, additional_indicators |-> i],
                  None, "pending", None, None, None) :
                 m \in 0..MaxSoilMoisture, e \in AllWaterEcosystems, i \in AllIndicators }

ReturnWaterAnalyze ==
    /\ lastCall.outcome = "pending"
    /\ Water_analyze_call(lastCall.sensor_data)

SpecWaterAnalyze == InitWaterAnalyze /\ [][ReturnWaterAnalyze]_vars

---------------------------------------------------------------------------
(* WaterStressTranslator.generate_feedback_pattern over a grid of arguments *)

\* Severities 0, 0.01, ..., 1.
SeverityGrid == { Hundredth(k) : k \in 0..100 }

\* A direct call of generate_feedback_pattern: it reads and writes no attribute.
Water_generate_call(a, previous_stress) ==
    /\ lastCall' = Call("Water.generate_feedback_pattern", None, None, "ok",
                        previous_stress, Some(a),
                        Some(Water_generate_feedback_pattern(
                                 a.stress_level, a.is_saturated, a.saturation_level,
                                 previous_stress)))
    /\ UNCHANGED <<water_previous_readings, bio_previous_readings, last_ok, in_flight, twin, community>>

InitWaterGenerate ==
    /\ water_previous_readings =
           [soil_moisture |-> None, stress_level |-> None, timestamp |-> None]
    /\ bio_previous_readings = [depletion_level |-> None, timestamp |-> None]
    /\ last_ok = [water |-> None, bio |-> None, water_type |-> None]
    /\ in_flight = NoneInFlight
    /\ twin = FreshTwin
    /\ community = FreshCommunity
    /\ lastCall \in
           { Call("Water.generate_feedback_pattern", None, None, "pending", p,
                  Some([raised |-> FALSE, stress_level |-> s, is_saturated |-> sat,
                        saturation_level |-> l]),
                  None) :
                 s \in SeverityGrid, sat \in BOOLEAN, l \in {0, Tenth(6)},
                 p \in {None} \cup { Some(q) : q \in SeverityGrid } }

ReturnWaterGenerate ==
    /\ lastCall.outcome = "pending"
    /\ Water_generate_call(Val(lastCall.analysis), lastCall.previous)

SpecWaterGenerate == InitWaterGenerate /\ [][ReturnWaterGenerate]_vars

---------------------------------------------------------------------------
(* Reading lastCall *)

TranslateOps == {"Water.translate", "Bio.translate"}

WaterTranslateReturned == lastCall.op = "Water.translate" /\ lastCall.outcome = "ok"
BioTranslateReturned == lastCall.op = "Bio.translate" /\ lastCall.outcome = "ok"
TranslateRaised == lastCall.op \in TranslateOps /\ lastCall.outcome # "ok"

\* The severity a returned call computed.
ReturnedSeverity ==
    IF lastCall.op \in {"Bio.translate", "Bio.analyze_biodiversity"}
    THEN Val(lastCall.analysis).depletion_level
    ELSE Val(lastCall.analysis).stress_level

ReturnedPattern == Val(lastCall.feedback)

---------------------------------------------------------------------------
(* Claims *)

\* The stored previous severity is that of the latest successful translate.
C1_StoredIsLatest ==
    /\ water_previous_readings.stress_level = last_ok.water
    /\ bio_previous_readings.depletion_level = last_ok.bio

\* A translate step: what it read as previous, and what it leaves as latest.
C1_ReadsLatest ==
    /\ WaterTranslateReturned' =>
          /\ lastCall'.previous = last_ok.water
          /\ last_ok'.water = Some(ReturnedSeverity')
    /\ BioTranslateReturned' =>
          /\ lastCall'.previous = last_ok.bio
          /\ last_ok'.bio = Some(ReturnedSeverity')
    /\ TranslateRaised' => last_ok' = last_ok

\* C1.  After any sequence of translate calls, each translator's stored previous
\* severity is the severity computed by its most recent successful translate
\* call (None if none succeeded), and a successful call reads as `previous`
\* exactly the severity computed by the successful call before it.
C1_PreviousIsLatestSuccess == []C1_StoredIsLatest /\ [][C1_ReadsLatest]_vars

\* A failed call after a successful one, the stored stress still that of the
\* successful one.
C1_Witness ==
    /\ lastCall.op = "Water.translate"
    /\ lastCall.outcome = "UnknownEcosystemType"
    /\ water_previous_readings.stress_level = Some(Hundredth(25))
    /\ bio_previous_readings.depletion_level # None

\* C2.  A translate call that raises (missing data or unknown ecosystem) leaves
\* previous_readings, severity and timestamp, of both translators as they were.
C2_FailureKeepsState ==
    [][ TranslateRaised' =>
            /\ water_previous_readings' = water_previous_readings
            /\ bio_previous_readings' = bio_previous_readings ]_vars

\* A biodiversity call raised on missing data with readings stored before it.
C2_Witness ==
    /\ lastCall.op = "Bio.translate"
    /\ lastCall.outcome = "MissingSensorData"
    /\ bio_previous_readings.depletion_level # None
    /\ bio_previous_readings.timestamp = Some(1)

\* C3.  A returned pattern has a trend field exactly when a previous severity was
\* stored and |new - previous| > threshold (0.1 water, 0.05 biodiversity); its
\* direction is "improving" when new < previous, else "worsening", and its
\* magnitude is |new - previous|.
C3_TrendExactlyAboveThreshold ==
    (WaterTranslateReturned \/ BioTranslateReturned) =>
        LET threshold == IF lastCall.op = "Water.translate" THEN Tenth(1) ELSE Hundredth(5)
            trend == ReturnedPattern.trend
        IN  IF lastCall.previous = None THEN trend = None
            ELSE LET delta == ReturnedSeverity - Val(lastCall.previous)
                 IN  /\ (trend # None) <=> (Abs(delta) > threshold)
                     /\ trend # None =>
                          /\ Val(trend).direction =
                                 (IF delta < 0 THEN "improving" ELSE "worsening")
                          /\ Val(trend).magnitude = Abs(delta)

\* A change of exactly the threshold (0.3 after 0.2): no trend field.
C3_Witness ==
    /\ WaterTranslateReturned
    /\ lastCall.previous = Some(Tenth(2))
    /\ ReturnedSeverity = Tenth(3)
    /\ ReturnedPattern.trend = None

\* C4.  For every configured ecosystem, soil_moisture in 0..100 and combination of
\* secondary indicators, analyze_water_stress returns stress_level and
\* saturation_level in [0, 1].
C4_WaterLevelsInUnitRange ==
    (lastCall.op = "Water.analyze_water_stress" /\ lastCall.outcome = "ok") =>
        /\ Val(lastCall.analysis).stress_level \in 0..One
        /\ Val(lastCall.analysis).saturation_level \in 0..One

\* A reading whose stress the stream-flow factor would carry above 1.
C4_Witness ==
    /\ lastCall.op = "Water.analyze_water_stress"
    /\ lastCall.outcome = "ok"
    /\ lastCall.sensor_data.soil_moisture = 0
    /\ lastCall.sensor_data.additional_indicators = Some(Indicators(None, Some(3), None, None, None))
    /\ Val(lastCall.analysis).stress_level = One

\* C5.  analyze_biodiversity returns depletion_level in [0, 1] for non-negative
\* indicator values, and translate stores that value as the previous depletion.
C5_DepletionInUnitRange ==
    BioTranslateReturned =>
        /\ ReturnedSeverity \in 0..One
        /\ bio_previous_readings.depletion_level = Some(ReturnedSeverity)

\* C6.  Whenever analyze_water_stress returns is_saturated = true, the returned
\* stress_level is 0, whatever additional_indicators are supplied.
C6_SaturatedMeansNoStress ==
    (lastCall.op = "Water.analyze_water_stress" /\ lastCall.outcome = "ok"
        /\ Val(lastCall.analysis).is_saturated) =>
        Val(lastCall.analysis).stress_level = 0

C8_FirstMatchOrder ==
    (lastCall.op = "Water.generate_feedback_pattern" /\ lastCall.outcome = "ok") =>
        LET a == Val(lastCall.analysis)
            prev == lastCall.previous
            gate == /\ prev # None
                    /\ a.stress_level < Val(prev)
                    /\ Val(prev) > Tenth(3)
                    /\ a.stress_level < Tenth(3)
            type == ReturnedPattern.type
        IN  /\ type \in {"recovery", "affirmation", "pressure", "tension"}
            /\ (type = "recovery") <=> gate
            /\ (type = "affirmation") <=> (~gate /\ a.stress_level = 0 /\ ~a.is_saturated)
            /\ (type = "pressure") <=>
                   (~gate /\ ~(a.stress_level = 0 /\ ~a.is_saturated) /\ a.is_saturated)
            /\ (type = "tension") => (~a.is_saturated /\ a.stress_level > 0)

\* A saturated reading with stress 0 after a previous stress of 0.5: "recovery".
C8_Witness ==
    /\ lastCall.op = "Water.generate_feedback_pattern"
    /\ lastCall.outcome = "ok"
    /\ Val(lastCall.analysis).is_saturated
    /\ Val(lastCall.analysis).stress_level = 0
    /\ lastCall.previous = Some(Tenth(5))
    /\ ReturnedPattern.type = "recovery"

\* The ecosystem_type a call was given, None when it was given none.
GivenEcosystem ==
    IF lastCall.op \in TranslateOps THEN lastCall.sensor_data.ecosystem_type
    ELSE IF lastCall.op \in {"Water.analyze_water_stress", "Bio.analyze_biodiversity"}
         THEN Some(lastCall.sensor_data.ecosystem_type)
         ELSE None

\* The call named an ecosystem_type that its translator's table does not have.
UnconfiguredEcosystemGiven ==
    /\ GivenEcosystem # None
    /\ IF lastCall.op \in {"Water.translate", "Water.analyze_water_stress"}
       THEN Val(GivenEcosystem) \notin DOMAIN ecosystem_moisture_ranges
       ELSE Val(GivenEcosystem) \notin DOMAIN diversity_thresholds

\* C9, as stated.  analyze and translate of either translator, called with an
\* ecosystem_type that is not a key of its table, always fail with the
\* unknown-ecosystem error, whatever the other fields.
C9_AlwaysUnknownEcosystemError ==
    UnconfiguredEcosystemGiven => lastCall.outcome = "UnknownEcosystemType"

\* The required data of a translate call is absent: soil_moisture for water,
\* every key but ecosystem_type and timestamp for biodiversity.
RequiredDataAbsent ==
    IF lastCall.op = "Water.translate" THEN lastCall.sensor_data.soil_moisture = None
    ELSE IF lastCall.op = "Bio.translate"
         THEN /\ \A i \in 1..Len(CountIndicators) :
                     lastCall.sensor_data[CountIndicators[i]] = None
              /\ lastCall.sensor_data.acoustic_diversity = None
              /\ ~lastCall.sensor_data.other_key
         ELSE FALSE

\* C9, amended.  Such a call always fails and returns neither a pattern nor a
\* severity; the error is the unknown-ecosystem error when the required sensor
\* data is present (always, for analyze), and the missing-sensor-data error when
\* translate is also given no soil_moisture (water) or no key besides
\* ecosystem_type and timestamp (biodiversity).
C9_UnconfiguredEcosystemFails ==
    UnconfiguredEcosystemGiven =>
        /\ lastCall.outcome \in {"UnknownEcosystemType", "MissingSensorData"}
        /\ lastCall.feedback = None
        /\ lastCall.analysis = None
        /\ (lastCall.outcome = "MissingSensorData") <=> RequiredDataAbsent

\* "rainforest", configured for water only, given to the biodiversity translate
\* with readings stored.
C9_Witness ==
    /\ lastCall.op = "Bio.translate"
    /\ lastCall.sensor_data.ecosystem_type = Some("rainforest")
    /\ lastCall.outcome = "UnknownEcosystemType"
    /\ bio_previous_readings.depletion_level # None

\* C10.  The water translate fails with the missing-sensor-data error exactly when
\* soil_moisture or ecosystem_type is absent; the check precedes the ecosystem
\* lookup, and a soil_moisture of 0 counts as present.
C10_MissingExactlyWhenAbsent ==
    lastCall.op = "Water.translate" =>
        /\ (lastCall.outcome = "MissingSensorData") <=>
               (lastCall.sensor_data.soil_moisture = None
                    \/ lastCall.sensor_data.ecosystem_type = None)
        /\ (lastCall.sensor_data.soil_moisture = None
                /\ lastCall.sensor_data.ecosystem_type = Some(UnknownEcosystem)) =>
               lastCall.outcome = "MissingSensorData"
        /\ (lastCall.sensor_data.soil_moisture = Some(0)
                /\ lastCall.sensor_data.ecosystem_type = Some("wetland")) =>
               (lastCall.outcome = "ok" /\ Val(lastCall.analysis).stress_level = One)

\* No soil_moisture and an unknown ecosystem: missing data is what is reported.
C10_Witness ==
    /\ lastCall.op = "Water.translate"
    /\ lastCall.sensor_data.soil_moisture = None
    /\ lastCall.sensor_data.ecosystem_type = Some(UnknownEcosystem)
    /\ lastCall.outcome = "MissingSensorData"

\* The biodiversity translate was given none of the five indicators that
\* analyze_biodiversity reads.
NoBiodiversityIndicator ==
    /\ \A i \in 1..Len(CountIndicators) : lastCall.sensor_data[CountIndicators[i]] = None
    /\ lastCall.sensor_data.acoustic_diversity = None

\* C11.  A biodiversity translate call whose sensor_data lacks ecosystem_type, or
\* holds none of species_count, bird_species, insect_orders, shannon_index,
\* acoustic_diversity, fails with the missing-sensor-data error and returns no
\* pattern, also when sensor_data carries other, unrecognised keys.
C11_NoIndicatorIsMissingData ==
    (lastCall.op = "Bio.translate"
        /\ (lastCall.sensor_data.ecosystem_type = None \/ NoBiodiversityIndicator)) =>
        /\ lastCall.outcome = "MissingSensorData"
        /\ lastCall.feedback = None

---------------------------------------------------------------------------
(* translate called from several threads on the shared instances *)

\* The severity stored in the translator that `op` belongs to: what lines 208
\* (water) and 232 (biodiversity) read.
Conc_stored_severity(op) ==
    IF op = "Water.translate" THEN water_previous_readings.stress_level
    ELSE bio_previous_readings.depletion_level

\* A read that does not consult previous_readings.
Conc_read_previous_unset(op) == None

\* water line 208, biodiversity line 232: the local `previous` of the call.
Conc_read_previous(op) == Conc_stored_severity(op)

Conc_outcome(op, sensor_data) ==
    IF op = "Water.translate" THEN Water_outcome(sensor_data) ELSE Bio_outcome(sensor_data)

\* The rest of translate as the thread runs it: previous_readings as they are
\* now, but the previous severity the one the thread read when it started.
Conc_translate_on(call, now) ==
    IF call.op = "Water.translate"
    THEN Water_translate_on([water_previous_readings EXCEPT !.stress_level = call.previous],
                            call.sensor_data, call.timestamp, now)
    ELSE Bio_translate_on([bio_previous_readings EXCEPT !.depletion_level = call.previous],
                          call.sensor_data, call.timestamp, now)

\* Some thread other than c is inside translate of the same translator.
Conc_other_inside(c, op) ==
    \E o \in Callers \ {c} : in_flight[o].pc # "idle" /\ in_flight[o].op = op

\* Thread c enters translate: the missing-data check (water line 204,
\* biodiversity line 228), which may raise, then the read of the stored
\* previous severity.  `overlapped` records, for c and for every call it finds
\* inside the same translator, that they were in flight together.
Conc_start(c, op, sensor_data, timestamp) ==
    /\ in_flight[c].pc = "idle"
    /\ IF Conc_outcome(op, sensor_data) = "MissingSensorData"
       THEN /\ lastCall' = Call(op, sensor_data, timestamp, "MissingSensorData",
                                None, None, None)
            /\ UNCHANGED in_flight
       ELSE /\ in_flight' =
                   [o \in Callers |->
                       IF o = c
                       THEN [pc |-> "read", op |-> op, sensor_data |-> sensor_data,
                             timestamp |-> timestamp,
                             previous |-> Conc_read_previous(op),
                             overlapped |-> Conc_other_inside(c, op),
                             result |-> None]
                       ELSE IF in_flight[o].pc # "idle" /\ in_flight[o].op = op
                            THEN [in_flight[o] EXCEPT !.overlapped = TRUE]
                            ELSE in_flight[o]]
            /\ UNCHANGED lastCall
    /\ UNCHANGED <<water_previous_readings, bio_previous_readings, last_ok, twin, community>>

\* Thread c runs analyze and generate_feedback_pattern on its own data, which
\* may raise on the ecosystem, then assigns previous_readings (water lines
\* 211-228, biodiversity lines 234-244).
Conc_store(c, now) ==
    /\ in_flight[c].pc = "read"
    /\ LET r == Conc_translate_on(in_flight[c], now)
       IN  IF r.call.outcome # "ok"
           THEN /\ lastCall' = r.call
                /\ in_flight' = [in_flight EXCEPT ![c] = Idle]
                /\ UNCHANGED <<water_previous_readings, bio_previous_readings, last_ok>>
           ELSE /\ in_flight' = [in_flight EXCEPT ![c].pc = "stored",
                                                  ![c].result = Some(r.call)]
                /\ IF in_flight[c].op = "Water.translate"
                   THEN /\ water_previous_readings' = r.previous_readings
                        /\ last_ok' = [last_ok EXCEPT !.water = ComputedSeverity(r.call),
                                                      !.water_type = ReturnedType(r.call)]
                        /\ UNCHANGED bio_previous_readings
                   ELSE /\ bio_previous_readings' = r.previous_readings
                        /\ last_ok' = [last_ok EXCEPT !.bio = ComputedSeverity(r.call)]
                        /\ UNCHANGED water_previous_readings
                /\ UNCHANGED lastCall
    /\ UNCHANGED <<twin, community>>

\* Thread c attaches the trend, computed from the previous severity it read,
\* and returns (water lines 231-239, biodiversity lines 247-255).
Conc_return(c) ==
    /\ in_flight[c].pc = "stored"
    /\ lastCall' = Val(in_flight[c].result)
    /\ in_flight' = [in_flight EXCEPT ![c] = Idle]
    /\ UNCHANGED <<water_previous_readings, bio_previous_readings, last_ok, twin, community>>

\* The calls the threads make, all without a timestamp argument: stress 1.0,
\* 0.5, 0.25, and two that raise; depletion 1.2, 0.12, and two that raise.
ConcWaterCalls ==
    { WaterSensorData(Some(0),  Some("wetland"), None),
      WaterSensorData(Some(55), Some("wetland"), None),
      WaterSensorData(Some(59), Some("wetland"), WaterTable(30)),
      WaterSensorData(None,     Some("wetland"), None),
      WaterSensorData(Some(0),  Some(UnknownEcosystem), None) }

ConcBioCalls ==
    { BioSensorData(Some("temperate_forest"), Some(0), None, None, None, None, FALSE),
      BioSensorData(Some("temperate_forest"), Some(9), None, None, None, None, FALSE),
      BioSensorData(Some("temperate_forest"), None, None, None, None, None, FALSE),
      BioSensorData(Some("rainforest"), Some(12), None, None, None, None, FALSE) }

ConcStartWater ==
    \E c \in Callers, d \in ConcWaterCalls : Conc_start(c, "Water.translate", d, None)

ConcStartBio ==
    \E c \in Callers, d \in ConcBioCalls : Conc_start(c, "Bio.translate", d, None)

ConcStore == \E c \in Callers, now \in ClockReadings : Conc_store(c, now)

ConcReturn == \E c \in Callers : Conc_return(c)

NextInterleaved ==
    \/ ConcStartWater
    \/ ConcStartBio
    \/ ConcStore
    \/ ConcReturn

SpecInterleaved == Init /\ [][NextInterleaved]_vars

\* Thread c assigns previous_readings in this step.
C12_Stores(c) == in_flight[c].pc = "read" /\ in_flight'[c].pc = "stored"

\* C12.  When a translate call assigns previous_readings, the previous severity
\* it read at its start, against which its recovery and trend decisions are
\* made, is the severity stored just before its own assignment, that of the
\* latest completed write, unless another call on the same translator was in
\* flight together with it: with at most one call in flight per instance no
\* stale read and no lost update is reachable.  (With two interleaved calls a
\* state where both read the same stored severity and the later assignment
\* overwrites the earlier one is reachable: the witness.)
C12_StaleReadOnlyWhenOverlapped ==
    [][ \A c \in Callers :
            (C12_Stores(c) /\ ~in_flight[c].overlapped) =>
                /\ in_flight[c].previous = Conc_stored_severity(in_flight[c].op)
                /\ in_flight[c].previous = (IF in_flight[c].op = "Water.translate"
                                            THEN last_ok.water ELSE last_ok.bio) ]_vars

\* Two water calls that both read stress 1.0 and have both assigned: the first
\* stored 0.5, the second 0.25 over it, and the second returns a recovery
\* pattern with an improving trend of 0.75 measured from 1.0, not from 0.5.
C12_Witness ==
    \E a, b \in Callers :
        /\ a # b
        /\ in_flight[a].pc = "stored" /\ in_flight[b].pc = "stored"
        /\ in_flight[a].op = "Water.translate" /\ in_flight[b].op = "Water.translate"
        /\ in_flight[a].previous = Some(One) /\ in_flight[b].previous = Some(One)
        /\ ComputedSeverity(Val(in_flight[a].result)) = Some(Tenth(5))
        /\ ComputedSeverity(Val(in_flight[b].result)) = Some(Hundredth(25))
        /\ water_previous_readings.stress_level = Some(Hundredth(25))
        /\ Val(in_flight[b].result).feedback[1].type = "recovery"
        /\ Val(in_flight[b].result).feedback[1].trend =
               Some([direction |-> "improving", magnitude |-> Hundredth(75)])

---------------------------------------------------------------------------
(* Two instances of each translator, called independently *)

\* Variant: previous_readings held by the class, one dict for both instances.
Twin_water_translate_shared(sensor_data, timestamp, now) ==
    LET r == Water_translate_on(water_previous_readings, sensor_data, timestamp, now)
    IN  /\ water_previous_readings' = r.previous_readings
        /\ twin' = [twin EXCEPT !.water_previous_readings = r.previous_readings,
                                !.lastCall = r.call]
        /\ UNCHANGED <<bio_previous_readings, lastCall, last_ok, in_flight, community>>

\* translate on the second WaterStressTranslator: the same method, on its own
\* previous_readings.
Twin_water_translate(sensor_data, timestamp, now) ==
    LET r == Water_translate_on(twin.water_previous_readings, sensor_data, timestamp, now)
    IN  /\ twin' = [twin EXCEPT !.water_previous_readings = r.previous_readings,
                                !.lastCall = r.call]
        /\ UNCHANGED <<water_previous_readings, bio_previous_readings, lastCall,
                       last_ok, in_flight, community>>

\* translate on the second BiodiversityTranslator.
Twin_bio_translate(sensor_data, timestamp, now) ==
    LET r == Bio_translate_on(twin.bio_previous_readings, sensor_data, timestamp, now)
    IN  /\ twin' = [twin EXCEPT !.bio_previous_readings = r.previous_readings,
                                !.lastCall = r.call]
        /\ UNCHANGED <<water_previous_readings, bio_previous_readings, lastCall,
                       last_ok, in_flight, community>>

\* Calls made on either instance.  Stress 0.3 is reached from two different
\* readings (soil_moisture 57; soil_moisture 59 with a low leaf water
\* potential), then 0.5, and an unknown ecosystem; depletion 1.2 and 0.12.
\* Each call comes with and without a timestamp argument.
TwinWaterCalls ==
    { WaterSensorData(Some(57), Some("wetland"), None),
      WaterSensorData(Some(59), Some("wetland"), Leaf(-25)),
      WaterSensorData(Some(55), Some("wetland"), None),
      WaterSensorData(Some(0),  Some(UnknownEcosystem), None) }

TwinBioCalls ==
    { BioSensorData(Some("temperate_forest"), Some(0), None, None, None, None, FALSE),
      BioSensorData(Some("temperate_forest"), Some(9), None, None, None, None, FALSE) }

TwinTimestamps == {None, Some(MaxTimestamp)}

FirstWaterTranslate ==
    \E d \in TwinWaterCalls, t \in TwinTimestamps, now \in ClockReadings :
        Water_translate(d, t, now)

FirstBioTranslate ==
    \E d \in TwinBioCalls, t \in TwinTimestamps, now \in ClockReadings :
        Bio_translate(d, t, now)

TwinWaterTranslate ==
    \E d \in TwinWaterCalls, t \in TwinTimestamps, now \in ClockReadings :
        Twin_water_translate(d, t, now)

TwinBioTranslate ==
    \E d \in TwinBioCalls, t \in TwinTimestamps, now \in ClockReadings :
        Twin_bio_translate(d, t, now)

NextTwin ==
    \/ FirstWaterTranslate
    \/ FirstBioTranslate
    \/ TwinWaterTranslate
    \/ TwinBioTranslate

SpecTwin == Init /\ [][NextTwin]_vars

\* The severity an instance has stored for the translator of `op`.
StoredSeverityOf(op, water_readings, bio_readings) ==
    IF op = "Water.translate" THEN water_readings.stress_level
    ELSE bio_readings.depletion_level

\* The latest call on each of the two instances was the same method with the
\* same sensor_data.
C13_SameCallOnBoth ==
    /\ lastCall.op \in TranslateOps
    /\ twin.lastCall.op = lastCall.op
    /\ twin.lastCall.sensor_data = lastCall.sensor_data

\* C13.  Two instances of the same translator given the same sensor_data both
\* raise the same error or both return; when both return and each had the same
\* previous severity stored, they return the same pattern, with the same trend
\* or both without, computed the same severity and have stored it, whatever
\* calls brought each instance to that stored severity and whatever the
\* timestamp arguments and stored timestamps.
C13_SameInputsSameResult ==
    C13_SameCallOnBoth =>
        /\ twin.lastCall.outcome = lastCall.outcome
        /\ (lastCall.outcome = "ok" /\ twin.lastCall.previous = lastCall.previous) =>
              /\ twin.lastCall.feedback = lastCall.feedback
              /\ twin.lastCall.analysis = lastCall.analysis
              /\ StoredSeverityOf(lastCall.op, twin.water_previous_readings,
                                  twin.bio_previous_readings)
                     = StoredSeverityOf(lastCall.op, water_previous_readings,
                                        bio_previous_readings)

\* Both instances returned for soil_moisture 55 after a stored stress of 0.3,
\* one called with a timestamp and one without, and the stored timestamps
\* differ.
C13_Witness ==
    /\ C13_SameCallOnBoth
    /\ lastCall.op = "Water.translate"
    /\ lastCall.outcome = "ok"
    /\ lastCall.previous = Some(Tenth(3))
    /\ twin.lastCall.previous = Some(Tenth(3))
    /\ lastCall.sensor_data.soil_moisture = Some(55)
    /\ lastCall.timestamp # twin.lastCall.timestamp
    /\ water_previous_readings.timestamp # twin.water_previous_readings.timestamp
    /\ ReturnedPattern.trend = Some([direction |-> "worsening", magnitude |-> Tenth(2)])

\* The call of analyze_water_stress that returned, and what it was given.
WaterAnalyzeReturned ==
    lastCall.op = "Water.analyze_water_stress" /\ lastCall.outcome = "ok"

\* C14.  For a non-saturated reading the stress_level analyze_water_stress
\* returns is the base stress taken through four rules in this order, each
\* reading the result of the one before and each result clamped to at most 1:
\* leaf_water_potential (+0.2 below -2.0, else +0.1 below -1.5), stream_flow
\* (x 1.3 below 0.5), water_table_depth (+0.15 above 1.5 x the normal depth,
\* which defaults to 0), precipitation_deficit (+ deficit/100 x 0.2 above 30).
C14_SecondaryRulesInOrder ==
    (WaterAnalyzeReturned /\ ~Val(lastCall.analysis).is_saturated) =>
        LET args == lastCall.sensor_data
            ind == IF args.additional_indicators = None THEN EmptyIndicators
                   ELSE Val(args.additional_indicators)
            base == Water_base_stress(args.soil_moisture,
                                      ecosystem_moisture_ranges[args.ecosystem_type])
            leaf == ind.leaf_water_potential
            after_leaf ==
                IF leaf # None /\ Val(leaf) < -20 THEN Min(One, base + Tenth(2))
                ELSE IF leaf # None /\ Val(leaf) < -15 THEN Min(One, base + Tenth(1))
                ELSE base
            after_stream ==
                IF ind.stream_flow # None /\ Val(ind.stream_flow) < 5
                THEN Min(One, Times10th(after_leaf, 13))
                ELSE after_leaf
            normal == IF ind.normal_water_table_depth = None THEN 0
                      ELSE Val(ind.normal_water_table_depth)
            after_table ==
                IF ind.water_table_depth # None
                       /\ 10 * Val(ind.water_table_depth) > 15 * normal
                THEN Min(One, after_stream + Hundredth(15))
                ELSE after_stream
            deficit == ind.precipitation_deficit
            after_precip ==
                IF deficit # None /\ Val(deficit) > 30
                THEN Min(One, after_table + Times10th(Frac(Val(deficit), 100), 2))
                ELSE after_table
        IN  Val(lastCall.analysis).stress_level = after_precip

\* soil_moisture 18 in a temperate forest, leaf potential -1.8, stream flow 0.3,
\* deficit 25: 0.28, then 0.38, then 0.494; the stream factor applied to the
\* base alone would have given 0.464.
C14_Witness ==
    /\ WaterAnalyzeReturned
    /\ lastCall.sensor_data.soil_moisture = 18
    /\ lastCall.sensor_data.ecosystem_type = "temperate_forest"
    /\ lastCall.sensor_data.additional_indicators =
           Some(Indicators(Some(-18), Some(3), None, None, Some(25)))
    /\ ~Val(lastCall.analysis).is_saturated
    /\ Val(lastCall.analysis).stress_level = Frac(247, 500)

\* The pattern a direct call of the water generate_feedback_pattern returned
\* is a tension pattern.
TensionGenerated ==
    /\ lastCall.op = "Water.generate_feedback_pattern"
    /\ lastCall.outcome = "ok"
    /\ ReturnedPattern.type = "tension"

\* C15, as stated.  For every tension pattern, pulse_count is stress_level x 6
\* rounded to the nearest integer, then limited to 2..5.
C15_PulseCountRounded ==
    TensionGenerated =>
        ReturnedPattern.pulse_count =
            Max(2, Min(5, RoundHalfEven(6 * Val(lastCall.analysis).stress_level)))

\* C15, amended.  For every tension pattern, pulse_count is the integer part of
\* stress_level x 6 (rounded down, never up), then limited to 2..5.
C15_PulseCountTruncated ==
    TensionGenerated =>
        LET stress_level == Val(lastCall.analysis).stress_level
            whole == CHOOSE k \in 0..6 :
                         k * One <= 6 * stress_level /\ 6 * stress_level < (k + 1) * One
        IN  /\ stress_level > 0 /\ stress_level <= One
            /\ ReturnedPattern.pulse_count = Max(2, Min(5, whole))

\* Stress 0.42: 0.42 x 6 = 2.52, whose nearest integer is 3; pulse_count is 2.
C15_Witness ==
    /\ TensionGenerated
    /\ Val(lastCall.analysis).stress_level = Hundredth(42)
    /\ ReturnedPattern.pulse_count = 2

---------------------------------------------------------------------------
(* analyze_biodiversity over a grid of indicator values *)

\* Readings of each indicator, absent or present, on both sides of and on the
\* thresholds of the four ecosystems; shannon_index in tenths, acoustic_diversity
\* in hundredths (150 is a reading above the documented 0-1 scale).
AllBiodiversityData ==
    { BioSensorData(None, species, birds, insects, shannon, acoustic, FALSE) :
          species \in {None} \cup { Some(v) : v \in {0, 5, 8, 10, 15, 20, 25, 30} },
          birds   \in {None} \cup { Some(v) : v \in {0, 4, 6, 8, 10, 12, 15, 20} },
          insects \in {None} \cup { Some(v) : v \in {0, 3, 4, 5, 7, 8} },
          shannon \in {None} \cup { Some(v) : v \in {0, 10, 15, 20, 22, 25, 28, 30} },
          acoustic \in {None} \cup { Some(v) : v \in {0, 65, 100, 150} } }

AllBioEcosystems == DOMAIN diversity_thresholds \cup {UnknownEcosystem}

InitBioAnalyze ==
    /\ water_previous_readings =
           [soil_moisture |-> None, stress_level |-> None, timestamp |-> None]
    /\ bio_previous_readings = [depletion_level |-> None, timestamp |-> None]
    /\ last_ok = [water |-> None, bio |-> None, water_type |-> None]
    /\ in_flight = NoneInFlight
    /\ twin = FreshTwin
    /\ community = FreshCommunity
    /\ lastCall \in
           { Call("Bio.analyze_biodiversity",
                  [biodiversity_data |-> d, ecosystem_type |-> e],
                  None, "pending", None, None, None) :
                 d \in AllBiodiversityData, e \in AllBioEcosystems }

ReturnBioAnalyze ==
    /\ lastCall.outcome = "pending"
    /\ Bio_analyze_call(lastCall.sensor_data)

SpecBioAnalyze == InitBioAnalyze /\ [][ReturnBioAnalyze]_vars

BioAnalyzeReturned ==
    lastCall.op = "Bio.analyze_biodiversity" /\ lastCall.outcome = "ok"

\* C16.  analyze_biodiversity returns the arithmetic mean of the scores of the
\* indicators present: for species_count, bird_species, insect_orders and
\* shannon_index, w_below x min(1, (low - v) / low) when v < low_threshold,
\* w_near x (optimal_low - v) / (optimal_low - low) when low <= v < optimal_low,
\* 0 from optimal_low up, with weights (1.2, 0.8), (1.0, 0.7), (1.1, 0.8),
\* (1.3, 0.9); for acoustic_diversity, max(0, 1 - acoustic).  With none of the
\* five present it returns 0.5.
C16_MeanOfPresentScores ==
    BioAnalyzeReturned =>
        LET data == lastCall.sensor_data.biodiversity_data
            th == diversity_thresholds[lastCall.sensor_data.ecosystem_type]
            Score(v, t, w_below, w_near) ==
                IF v < t.low_threshold
                THEN Times10th(Min(One, Frac(t.low_threshold - v, t.low_threshold)), w_below)
                ELSE IF v < t.optimal_low
                     THEN Times10th(Frac(t.optimal_low - v, t.optimal_low - t.low_threshold),
                                    w_near)
                     ELSE 0
            Of(x, score) == IF x = None THEN 0 ELSE score
            total ==
                Of(data.species_count, Score(Val(data.species_count), th.species_count, 12, 8))
                + Of(data.bird_species, Score(Val(data.bird_species), th.bird_species, 10, 7))
                + Of(data.insect_orders, Score(Val(data.insect_orders), th.insect_orders, 11, 8))
                + Of(data.shannon_index, Score(Val(data.shannon_index), th.shannon_index, 13, 9))
                + Of(data.acoustic_diversity,
                     Max(0, One - Frac(Val(data.acoustic_diversity), 100)))
            present == Cardinality({ k \in DOMAIN data \ {"ecosystem_type", "other_key"} :
                                        data[k] # None })
            depletion_level == Val(lastCall.analysis).depletion_level
        IN  IF present = 0 THEN depletion_level = Tenth(5)
            ELSE /\ present * depletion_level <= total
                 /\ total < present * (depletion_level + 1)

\* Temperate forest, species 5 (below the low threshold: 1.2 x 0.5), birds 20
\* (optimal: 0), shannon 2.2 (between: 0.9 x 0.6), nothing else: the mean of
\* the three is 0.38.
C16_Witness ==
    /\ BioAnalyzeReturned
    /\ lastCall.sensor_data.ecosystem_type = "temperate_forest"
    /\ lastCall.sensor_data.biodiversity_data =
           BioSensorData(None, Some(5), Some(20), None, Some(22), None, FALSE)
    /\ Val(lastCall.analysis).depletion_level = Hundredth(38)

---------------------------------------------------------------------------
(* BiodiversityTranslator.generate_feedback_pattern over a grid of arguments *)

\* Depletion 0, 0.01, ..., 1.3: analyze_biodiversity can return up to 1.3.
DepletionGrid == { Hundredth(k) : k \in 0..130 }

\* A direct call of generate_feedback_pattern: it reads and writes no attribute.
Bio_generate_call(a, previous_depletion) ==
    /\ lastCall' = Call("Bio.generate_feedback_pattern", None, None, "ok",
                        previous_depletion, Some(a),
                        Some(Bio_generate_feedback_pattern(a.depletion_level,
                                                           previous_depletion)))
    /\ UNCHANGED <<water_previous_readings, bio_previous_readings, last_ok, in_flight, twin, community>>

InitBioGenerate ==
    /\ water_previous_readings =
           [soil_moisture |-> None, stress_level |-> None, timestamp |-> None]
    /\ bio_previous_readings = [depletion_level |-> None, timestamp |-> None]
    /\ last_ok = [water |-> None, bio |-> None, water_type |-> None]
    /\ in_flight = NoneInFlight
    /\ twin = FreshTwin
    /\ community = FreshCommunity
    /\ lastCall \in
           { Call("Bio.generate_feedback_pattern", None, None, "pending", p,
                  Some([raised |-> FALSE, depletion_level |-> d]), None) :
                 d \in DepletionGrid,
                 p \in {None} \cup { Some(q) : q \in DepletionGrid } }

ReturnBioGenerate ==
    /\ lastCall.outcome = "pending"
    /\ Bio_generate_call(Val(lastCall.analysis), lastCall.previous)

SpecBioGenerate == InitBioGenerate /\ [][ReturnBioGenerate]_vars

BioGenerateReturned ==
    lastCall.op = "Bio.generate_feedback_pattern" /\ lastCall.outcome = "ok"

\* C17.  generate_feedback_pattern of the biodiversity translator selects by
\* first match: expanding_harmony (hope) when a previous depletion exists, the
\* new one is below it and the previous one is above 0.3; else harmony (wonder)
\* below 0.2; else simplified_harmony (contentment) below 0.5; else monotony,
\* with concern below 0.7 and alarm otherwise.  Every comparison is strict:
\* depletion exactly 0.2, 0.5, 0.7 falls in the later branch, and a previous
\* depletion of exactly 0.3 does not open the first.
C17_BioFirstMatchOrder ==
    BioGenerateReturned =>
        LET d == Val(lastCall.analysis).depletion_level
            prev == lastCall.previous
            expected ==
                IF prev # None /\ d < Val(prev) /\ Val(prev) > Tenth(3)
                THEN <<"expanding_harmony", "hope">>
                ELSE IF d < Tenth(2) THEN <<"harmony", "wonder">>
                ELSE IF d < Tenth(5) THEN <<"simplified_harmony", "contentment">>
                ELSE IF d < Tenth(7) THEN <<"monotony", "concern">>
                ELSE <<"monotony", "alarm">>
        IN  /\ <<ReturnedPattern.type, ReturnedPattern.emotion>> = expected
            /\ (prev = None /\ d = Tenth(2)) => ReturnedPattern.type = "simplified_harmony"
            /\ (prev = None /\ d = Tenth(5)) => ReturnedPattern.type = "monotony"
            /\ (prev = None /\ d = Tenth(7)) => ReturnedPattern.emotion = "alarm"
            /\ prev = Some(Tenth(3)) => ReturnedPattern.type # "expanding_harmony"

\* Depletion exactly 0.2 after a previous depletion of exactly 0.3: not
\* expanding_harmony, not harmony, but simplified_harmony.
C17_Witness ==
    /\ BioGenerateReturned
    /\ Val(lastCall.analysis).depletion_level = Tenth(2)
    /\ lastCall.previous = Some(Tenth(3))
    /\ ReturnedPattern.type = "simplified_harmony"
    /\ ReturnedPattern.emotion = "contentment"

\* The reading of examples/basic_usage.py: soil_moisture 18, temperate forest,
\* leaf water potential -1.8, stream flow 0.3, precipitation deficit 25.
ExampleWaterIndicators == Indicators(Some(-18), Some(3), None, None, Some(25))

ExampleWaterData ==
    WaterSensorData(Some(18), Some("temperate_forest"), Some(ExampleWaterIndicators))

\* C18.  On a fresh WaterStressTranslator, translate of the example reading
\* computes base stress 0.28, 0.38 after the leaf adjustment, 0.494 after the
\* stream-flow factor, with no precipitation adjustment; it is not saturated and
\* the pattern returned has type tension, rhythm intermittent, pulse_count 2,
\* emotion concern and no trend.
C18_ExampleWaterReading ==
    (lastCall.op = "Water.translate" /\ lastCall.sensor_data = ExampleWaterData
        /\ lastCall.outcome # "pending") =>
        /\ lastCall.outcome = "ok"
        /\ lastCall.previous = None =>
              /\ Water_base_stress(18, ecosystem_moisture_ranges["temperate_forest"])
                     = Hundredth(28)
              /\ Water_leaf_rule(Hundredth(28), ExampleWaterIndicators) = Hundredth(38)
              /\ Water_stream_rule(Hundredth(38), ExampleWaterIndicators) = Frac(247, 500)
              /\ Water_table_rule(Frac(247, 500), ExampleWaterIndicators) = Frac(247, 500)
              /\ Water_precip_rule(Frac(247, 500), ExampleWaterIndicators) = Frac(247, 500)
              /\ ReturnedSeverity = Frac(247, 500)
              /\ ~Val(lastCall.analysis).is_saturated
              /\ ReturnedPattern.type = "tension"
              /\ ReturnedPattern.rhythm = "intermittent"
              /\ ReturnedPattern.pulse_count = 2
              /\ ReturnedPattern.emotion = "concern"
              /\ ReturnedPattern.trend = None

\* The example reading was the first call on the translator.
C18_Witness ==
    /\ lastCall.op = "Water.translate"
    /\ lastCall.sensor_data = ExampleWaterData
    /\ lastCall.outcome = "ok"
    /\ lastCall.previous = None
    /\ water_previous_readings.stress_level = Some(Frac(247, 500))
    /\ bio_previous_readings.depletion_level = None
    /\ ReturnedPattern.pulse_count = 2
    /\ ReturnedPattern.trend = None

\* The biodiversity reading of examples/basic_usage.py: temperate forest,
\* 28 species, 18 bird species, 8 insect orders, shannon 2.8, acoustic 0.65.
ExampleBioData ==
    BioSensorData(Some("temperate_forest"), Some(28), Some(18), Some(8), Some(28),
                  Some(65), FALSE)

\* C19.  On a fresh BiodiversityTranslator, translate of the example reading
\* scores every indicator 0 except acoustic_diversity (0.35), so the mean
\* depletion is 0.07, below 0.2, and the pattern returned has type harmony,
\* emotion wonder and no trend.
C19_ExampleBioReading ==
    (lastCall.op = "Bio.translate" /\ lastCall.sensor_data = ExampleBioData) =>
        /\ lastCall.outcome = "ok"
        /\ lastCall.previous = None =>
              /\ Bio_depletion_scores(ExampleBioData, diversity_thresholds["temperate_forest"])
                     = <<0, 0, 0, 0, Hundredth(35)>>
              /\ ReturnedSeverity = Hundredth(7)
              /\ ReturnedSeverity < Tenth(2)
              /\ ReturnedPattern.type = "harmony"
              /\ ReturnedPattern.emotion = "wonder"
              /\ ReturnedPattern.trend = None

\* The example reading was the first call on the translator.
C19_Witness ==
    /\ lastCall.op = "Bio.translate"
    /\ lastCall.sensor_data = ExampleBioData
    /\ lastCall.previous = None
    /\ bio_previous_readings.depletion_level = Some(Hundredth(7))
    /\ ReturnedPattern.type = "harmony"
    /\ ReturnedPattern.trend = None

---------------------------------------------------------------------------
(* The first translate call on a fresh WaterStressTranslator *)

\* soil_moisture 0..100 and one reading above the documented range, every
\* ecosystem, no additional indicators; and the example reading.  Each with
\* and without a timestamp.
FreshWaterCalls ==
    { WaterSensorData(Some(m), Some(e), None) :
          m \in (0..MaxSoilMoisture) \cup {MaxSoilMoisture + 10},
          e \in AllWaterEcosystems }
    \cup {ExampleWaterData}

InitWaterFresh ==
    /\ water_previous_readings =
           [soil_moisture |-> None, stress_level |-> None, timestamp |-> None]
    /\ bio_previous_readings = [depletion_level |-> None, timestamp |-> None]
    /\ last_ok = [water |-> None, bio |-> None, water_type |-> None]
    /\ in_flight = NoneInFlight
    /\ twin = FreshTwin
    /\ community = FreshCommunity
    /\ lastCall \in
           { Call("Water.translate", d, t, "pending", None, None, None) :
                 d \in FreshWaterCalls, t \in TwinTimestamps }

ReturnWaterFresh ==
    /\ lastCall.outcome = "pending"
    /\ \E now \in ClockReadings :
           Water_translate(lastCall.sensor_data, lastCall.timestamp, now)

SpecWaterFresh == InitWaterFresh /\ [][ReturnWaterFresh]_vars

\* The two wetland readings of the claim, on a fresh translator: 90 is not
\* saturated, has stress 0 and is affirmed; 98 is saturated at level 0.6 and
\* felt as pressure.
C20_WetlandReadings ==
    WaterTranslateReturned =>
        LET a == Val(lastCall.analysis)
        IN  /\ lastCall.sensor_data = WaterSensorData(Some(90), Some("wetland"), None) =>
                  /\ ~a.is_saturated
                  /\ a.stress_level = 0
                  /\ ReturnedPattern.type = "affirmation"
            /\ lastCall.sensor_data = WaterSensorData(Some(98), Some("wetland"), None) =>
                  /\ a.is_saturated
                  /\ a.saturation_level = Tenth(6)
                  /\ ReturnedPattern.type = "pressure"

\* C20, as stated.  The wetland readings 90 and 98 come out as above; for
\* every reading saturation_level = min(1, (soil_moisture - saturation_threshold)
\* / (100 - saturation_threshold)), and is_saturated holds exactly when
\* soil_moisture > saturation_threshold.
C20_SaturationLevelEverywhere ==
    /\ C20_WetlandReadings
    /\ WaterTranslateReturned =>
          LET a == Val(lastCall.analysis)
              soil_moisture == Val(lastCall.sensor_data.soil_moisture)
              threshold == ecosystem_moisture_ranges[Val(lastCall.sensor_data.ecosystem_type)]
                               .saturation_threshold
          IN  /\ a.is_saturated <=> soil_moisture > threshold
              /\ a.saturation_level = Min(One, Frac(soil_moisture - threshold, 100 - threshold))

\* C20, amended.  The wetland readings 90 and 98 come out as above;
\* is_saturated holds exactly when soil_moisture > saturation_threshold; a
\* saturated reading has saturation_level = min(1, (soil_moisture -
\* saturation_threshold) / (100 - saturation_threshold)) and, with no
\* additional indicators, stress 0; a reading that is not saturated has
\* saturation_level 0.
C20_SaturationLevelWhenSaturated ==
    /\ C20_WetlandReadings
    /\ WaterTranslateReturned =>
          LET a == Val(lastCall.analysis)
              soil_moisture == Val(lastCall.sensor_data.soil_moisture)
              threshold == ecosystem_moisture_ranges[Val(lastCall.sensor_data.ecosystem_type)]
                               .saturation_threshold
          IN  /\ a.is_saturated <=> soil_moisture > threshold
              /\ a.is_saturated =>
                    /\ a.saturation_level =
                           Min(One, Frac(soil_moisture - threshold, 100 - threshold))
                    /\ a.saturation_level > 0
                    /\ a.stress_level = 0
              /\ ~a.is_saturated => a.saturation_level = 0

\* The wetland reading 98 on a fresh translator: pressure, at level 0.6.
C20_Witness ==
    /\ WaterTranslateReturned
    /\ lastCall.sensor_data = WaterSensorData(Some(98), Some("wetland"), None)
    /\ lastCall.previous = None
    /\ Val(lastCall.analysis).is_saturated
    /\ Val(lastCall.analysis).saturation_level = Tenth(6)
    /\ ReturnedPattern.type = "pressure"

---------------------------------------------------------------------------
(* WaterStressTranslator.get_historical_trends *)

\* Variant: the stored stress tested for truth, so that 0.0 counts as absent.
Water_historical_trends_falsy(previous_readings) ==
    IF previous_readings.stress_level = None \/ previous_readings.stress_level = Some(0)
    THEN [current_stress |-> None, last_reading_time |-> None,
          trend |-> "unknown", confidence |-> 0]
    ELSE [current_stress |-> previous_readings.stress_level,
          last_reading_time |-> previous_readings.timestamp,
          trend |-> "unknown", confidence |-> 0]

\* Lines 254-263: the dict returned; a key the dict does not have is None.
Water_historical_trends(previous_readings) ==
    IF previous_readings.stress_level = None
    THEN [current_stress |-> None, last_reading_time |-> None,
          trend |-> "unknown", confidence |-> 0]
    ELSE [current_stress |-> previous_readings.stress_level,
          last_reading_time |-> previous_readings.timestamp,
          trend |-> "unknown", confidence |-> 0]

\* Lines 241-263: the method reads previous_readings and assigns nothing.
Water_get_historical_trends(timeframe) ==
    /\ lastCall' = Call("Water.get_historical_trends", [timeframe |-> timeframe], None,
                        "ok", None, None,
                        Some(Water_historical_trends(water_previous_readings)))
    /\ UNCHANGED <<water_previous_readings, bio_previous_readings, last_ok, in_flight, twin, community>>

\* line 247: "daily", "weekly", or no timeframe.
Timeframes == {None, Some("daily"), Some("weekly")}

CallGetHistoricalTrends == \E tf \in Timeframes : Water_get_historical_trends(tf)

NextTrends ==
    \/ CallWaterTranslate
    \/ CallGetHistoricalTrends

SpecTrends == Init /\ [][NextTrends]_vars

TrendsReturned == lastCall.op = "Water.get_historical_trends"

\* What a returned get_historical_trends reports, against what is stored.
C21_ReportsStored ==
    TrendsReturned =>
        LET trend_data == ReturnedPattern
        IN  /\ lastCall.outcome = "ok"
            /\ trend_data.confidence = 0
            /\ trend_data.trend = "unknown"
            /\ last_ok.water = None =>
                  (trend_data.current_stress = None /\ trend_data.last_reading_time = None)
            /\ last_ok.water # None =>
                  /\ trend_data.current_stress = last_ok.water
                  /\ trend_data.current_stress = water_previous_readings.stress_level
                  /\ trend_data.last_reading_time = water_previous_readings.timestamp

\* C21.  get_historical_trends of the water translator is a read-only stub: it
\* always returns, leaves previous_readings unchanged, reports confidence 0 and
\* trend "unknown"; before any successful translate it reports no
\* current_stress, after one the stress_level stored by the most recent
\* successful translate and, as last_reading_time, the stored timestamp.
C21_HistoricalTrendsIsReadOnlyStub ==
    /\ []C21_ReportsStored
    /\ [][ TrendsReturned' =>
               /\ water_previous_readings' = water_previous_readings
               /\ bio_previous_readings' = bio_previous_readings ]_vars

\* Asked after a translate that stored stress 0.0 at timestamp 1: the stub
\* reports current_stress 0.0.
C21_Witness ==
    /\ TrendsReturned
    /\ water_previous_readings.stress_level = Some(0)
    /\ ReturnedPattern.current_stress = Some(0)
    /\ ReturnedPattern.last_reading_time = Some(1)

\* The four previous_readings attributes: of the first water and biodiversity
\* translators and of the second ones.
C22_Unchanged(i) ==
    CASE i = 1 -> water_previous_readings' = water_previous_readings
      [] i = 2 -> bio_previous_readings' = bio_previous_readings
      [] i = 3 -> twin'.water_previous_readings = twin.water_previous_readings
      [] i = 4 -> twin'.bio_previous_readings = twin.bio_previous_readings

\* The translate call of this step, on the instance it was made on: the first
\* instances record it in lastCall, the second ones in twin.lastCall.
C22_CallOn(i) ==
    IF i \in {1, 2} THEN lastCall' ELSE twin'.lastCall

C22_OpOf(i) == IF i \in {1, 3} THEN "Water.translate" ELSE "Bio.translate"

C22_StoredSeverity(i) ==
    CASE i = 1 -> water_previous_readings.stress_level
      [] i = 2 -> bio_previous_readings.depletion_level
      [] i = 3 -> twin.water_previous_readings.stress_level
      [] i = 4 -> twin.bio_previous_readings.depletion_level

\* C22.  Translator instances share no state.  A translate call, successful or
\* failing, changes the previous_readings of at most the instance it was called
\* on, between a water and a biodiversity translator as between two instances
\* of one class; previous_readings of an instance change only by a successful
\* translate on that instance; and the previous severity a call works from is
\* the one stored in its own instance.
C22_InstancesShareNoState ==
    [][ /\ \A i, j \in 1..4 : (i # j /\ ~C22_Unchanged(i)) => C22_Unchanged(j)
        /\ \A i \in 1..4 :
              ~C22_Unchanged(i) =>
                  /\ C22_CallOn(i).op = C22_OpOf(i)
                  /\ C22_CallOn(i).outcome = "ok"
                  /\ C22_CallOn(i).previous = C22_StoredSeverity(i)
                  /\ IF i \in {1, 2} THEN twin' = twin ELSE lastCall' = lastCall
        /\ (lastCall' # lastCall /\ lastCall'.outcome = "ok") =>
              lastCall'.previous =
                  (IF lastCall'.op = "Water.translate"
                   THEN water_previous_readings.stress_level
                   ELSE bio_previous_readings.depletion_level)
        /\ (twin'.lastCall # twin.lastCall /\ twin'.lastCall.outcome = "ok") =>
              twin'.lastCall.previous =
                  (IF twin'.lastCall.op = "Water.translate"
                   THEN twin.water_previous_readings.stress_level
                   ELSE twin.bio_previous_readings.depletion_level) ]_vars

\* The first water translator has gone from stress 0.3 to 0.5 while the second
\* water translator, given the same reading as its first call, saw no previous
\* stress, and the second biodiversity translator was never called.
C22_Witness ==
    /\ lastCall.op = "Water.translate"
    /\ lastCall.previous = Some(Tenth(3))
    /\ water_previous_readings.stress_level = Some(Tenth(5))
    /\ twin.lastCall.op = "Water.translate"
    /\ twin.lastCall.sensor_data = lastCall.sensor_data
    /\ twin.lastCall.outcome = "ok"
    /\ twin.lastCall.previous = None
    /\ twin.lastCall.feedback # lastCall.feedback
    /\ bio_previous_readings.depletion_level # None
    /\ twin.bio_previous_readings.depletion_level = None

---------------------------------------------------------------------------
(* The threshold tables *)

C23_WaterOrdered(ranges) ==
    /\ 0 < ranges.stress_threshold
    /\ ranges.stress_threshold < ranges.optimal_low
    /\ ranges.optimal_low < ranges.optimal_high
    /\ ranges.optimal_high < ranges.saturation_threshold
    /\ ranges.saturation_threshold < 100

C23_BioOrdered(th) ==
    /\ 0 < th.low_threshold
    /\ th.low_threshold < th.optimal_low
    /\ th.optimal_low < th.optimal_high

\* The denominators of lines 65, 75 and 79 of the water scoring and of lines
\* 75 and 79 (93, 96, 109, 112, 125, 128) of the biodiversity scoring.
C23_WaterDenominators(ranges) ==
    { 100 - ranges.saturation_threshold,
      ranges.stress_threshold,
      ranges.optimal_low - ranges.stress_threshold }

C23_BioDenominators(th) ==
    { th.low_threshold, th.optimal_low - th.low_threshold }

\* C23.  In every reachable state every configured ecosystem profile is
\* ordered: for water 0 < stress_threshold < optimal_low < optimal_high <
\* saturation_threshold < 100, for each biodiversity indicator
\* 0 < low_threshold < optimal_low < optimal_high; so the scoring a returned
\* analyze or translate call did for its ecosystem divided by strictly
\* positive numbers only.
C23_ThresholdsOrdered ==
    /\ \A e \in DOMAIN ecosystem_moisture_ranges :
          C23_WaterOrdered(ecosystem_moisture_ranges[e])
    /\ \A e \in DOMAIN diversity_thresholds :
          \A i \in DOMAIN diversity_thresholds[e] :
              C23_BioOrdered(diversity_thresholds[e][i])
    /\ (lastCall.outcome = "ok"
          /\ lastCall.op \in {"Water.translate", "Water.analyze_water_stress"}) =>
          /\ Val(GivenEcosystem) \in DOMAIN ecosystem_moisture_ranges
          /\ \A d \in C23_WaterDenominators(ecosystem_moisture_ranges[Val(GivenEcosystem)]) :
                d > 0
    /\ (lastCall.outcome = "ok"
          /\ lastCall.op \in {"Bio.translate", "Bio.analyze_biodiversity"}) =>
          /\ Val(GivenEcosystem) \in DOMAIN diversity_thresholds
          /\ \A i \in DOMAIN diversity_thresholds[Val(GivenEcosystem)] :
                \A d \in C23_BioDenominators(diversity_thresholds[Val(GivenEcosystem)][i]) :
                    d > 0

\* A biodiversity translate has returned after a water translate stored a
\* severe stress: both scorings have divided by their thresholds.
C23_Witness ==
    /\ BioTranslateReturned
    /\ ReturnedSeverity > 0
    /\ water_previous_readings.stress_level # None
    /\ Val(water_previous_readings.stress_level) > Tenth(7)

---------------------------------------------------------------------------
(* CommunityInterface: collective pulse sessions *)

\* At most this many sessions are initiated.
MaxSessions == 2

UserIds == {"user1", "user2"}

\* The domains a session is initiated for; no translator is registered for
\* "soil_health".
Domains == {"water_stress", "biodiversity", "soil_health"}

\* examples/basic_usage.py lines 60-63: the translators the application
\* registers, the first WaterStressTranslator and BiodiversityTranslator.
translators == [water_stress |-> "Water.translate", biodiversity |-> "Bio.translate"]

\* int(time.time()) when a session is initiated; two sessions initiated within
\* one second get the same session_id.
SessionTimes == {1, 2}

\* Lines 314-349: the simulated current readings.
Community_current_ecological_data(domain) ==
    IF domain = "water_stress"
    THEN WaterSensorData(Some(25), Some("temperate_forest"),
                         Some(Indicators(Some(-12), Some(7), None, None, Some(15))))
    ELSE IF domain = "biodiversity"
    THEN BioSensorData(Some("temperate_forest"), Some(28), Some(18), Some(8), Some(28),
                       Some(65), FALSE)
    ELSE [ecosystem_type |-> Some("temperate_forest")]

\* Lines 281-288, 362-369 and 246-247: the first session with this id, 0 when
\* there is none.
Community_find_session(sessions, session_id) ==
    LET found == {i \in 1..Len(sessions) : sessions[i].session_id = session_id}
    IN  IF found = {} THEN 0 ELSE CHOOSE i \in found : \A j \in found : i <= j

\* Lines 252 and 393: user_id in session["participants"].
Community_is_participant(session, user_id) ==
    \E k \in 1..Len(session.participants) : session.participants[k] = user_id

\* Lines 298-304: the metadata added to the record translate returned.
Community_context(session) ==
    [participant_count |-> Len(session.participants),
     watershed |-> "Coastal Creek Watershed",
     focus_area |-> session.focus_area,
     collective_intensity |->
         Min(One, Frac(Len(session.participants), 20) + Frac(1, 2))]

\* Variant: the record of translate stored and returned as it came.
Community_annotate_unchanged(feedback, session) == feedback

\* Lines 298-304: feedback["community_context"] = {...}, on the dict translate
\* returned.
Community_annotate(feedback, session) ==
    [k \in DOMAIN feedback \cup {"community_context"} |->
        IF k = "community_context" THEN Community_context(session) ELSE feedback[k]]

\* Lines 270-312, for a session found: the translate call made (None when no
\* translator is registered for the domain), the previous_readings it leaves,
\* the session afterwards and the dict returned.  translate raising leaves the
\* session as it was.
Community_generate_collective_feedback(session, water_readings, bio_readings, now) ==
    LET current_data == Community_current_ecological_data(session.domain)
    IN  IF session.domain \in DOMAIN translators
        THEN LET r == IF translators[session.domain] = "Water.translate"
                      THEN Water_translate_on(water_readings, current_data, None, now)
                      ELSE Bio_translate_on(bio_readings, current_data, None, now)
                 feedback == Community_annotate(Val(r.call.feedback), session)
             IN  [translate |-> Some(r.call),
                  water_previous_readings |->
                      IF r.call.op = "Water.translate" THEN r.previous_readings
                      ELSE water_readings,
                  bio_previous_readings |->
                      IF r.call.op = "Bio.translate" THEN r.previous_readings
                      ELSE bio_readings,
                  session |-> IF r.call.outcome = "ok"
                              THEN [session EXCEPT !.feedback_pattern = Some(feedback),
                                                   !.status = "active",
                                                   !.translate_calls = @ + 1]
                              ELSE [session EXCEPT !.translate_calls = @ + 1],
                  returned |-> IF r.call.outcome = "ok" THEN feedback
                               ELSE [raised |-> r.call.outcome]]
        ELSE [translate |-> None,
              water_previous_readings |-> water_readings,
              bio_previous_readings |-> bio_readings,
              session |-> session,
              returned |-> [error |-> "No translator available"]]

\* A call on the community, in the shape of lastCall; translate is the call
\* the community made on a translator meanwhile, None when it made none.
CommunityCall(op, args, outcome, returned, translate) ==
    [translate |-> translate] @@ Call(op, args, None, outcome, None, None, Some(returned))

\* A call that returns an error dict and changes nothing.
Community_error(op, args, message) ==
    /\ lastCall' = CommunityCall(op, args, "error", [error |-> message], None)
    /\ UNCHANGED <<water_previous_readings, bio_previous_readings, last_ok, in_flight,
                   twin, community>>

\* Lines 97-154: register_user.
Community_register_user(user_id) ==
    LET args == [user_id |-> user_id]
    IN  IF user_id \in DOMAIN community.users
        THEN /\ lastCall' = CommunityCall("Community.register_user", args, "ok",
                                          [success |-> FALSE], None)
             /\ UNCHANGED <<water_previous_readings, bio_previous_readings, last_ok,
                            in_flight, twin, community>>
        ELSE /\ community' = [community EXCEPT !.users =
                                 (user_id :> [shared_feedback_count |-> 0]) @@ @]
             /\ lastCall' = CommunityCall("Community.register_user", args, "ok",
                                          [success |-> TRUE], None)
             /\ UNCHANGED <<water_previous_readings, bio_previous_readings, last_ok,
                            in_flight, twin>>

\* Lines 161-219: initiate_collective_pulse.  translate_calls is history: the
\* number of translate calls made for the session.
Community_initiate_collective_pulse(initiator_id, domain, t) ==
    LET op == "Community.initiate_collective_pulse"
        args == [initiator_id |-> initiator_id, ecological_domain |-> domain]
        pulse_session ==
            [session_id |-> t, initiator |-> initiator_id, status |-> "scheduled",
             domain |-> domain, focus_area |-> None, participants |-> <<initiator_id>>,
             feedback_pattern |-> None, translate_calls |-> 0]
    IN  IF initiator_id \notin DOMAIN community.users
        THEN Community_error(op, args, "User not registered in this community")
        ELSE /\ community' = [community EXCEPT !.collective_pulse = Append(@, pulse_session)]
             /\ lastCall' = CommunityCall(op, args, "ok",
                                          [success |-> TRUE, session_id |-> t], None)
             /\ UNCHANGED <<water_previous_readings, bio_previous_readings, last_ok,
                            in_flight, twin>>

\* Variant: a session that is already active delivered again.
Community_deliverable_again(session) ==
    session.status \in {"scheduled", "open", "active"}

\* Line 371: the states a session is delivered in.
Community_deliverable(session) == session.status \in {"scheduled", "open"}

\* Line 248: the states a session is joined in.
Community_joinable(session) == session.status \in {"scheduled", "open"}

\* Lines 231-268: join_collective_pulse.
Community_join_collective_pulse(user_id, session_id) ==
    LET op == "Community.join_collective_pulse"
        args == [user_id |-> user_id, session_id |-> session_id]
        i == Community_find_session(community.collective_pulse, session_id)
        session == community.collective_pulse[i]
        joined == IF Community_is_participant(session, user_id) THEN session.participants
                  ELSE Append(session.participants, user_id)
    IN  IF user_id \notin DOMAIN community.users
        THEN Community_error(op, args, "User not registered in this community")
        ELSE IF i = 0 THEN Community_error(op, args, "Session not found")
        ELSE IF ~Community_joinable(session)
        THEN Community_error(op, args, "Session not available for joining")
        ELSE /\ community' =
                    IF Community_is_participant(session, user_id) THEN community
                    ELSE [community EXCEPT
                             !.collective_pulse[i].participants = joined,
                             !.users[user_id].shared_feedback_count = @ + 1]
             /\ lastCall' = CommunityCall(op, args, "ok",
                                          [success |-> TRUE, participants |-> Len(joined)],
                                          None)
             /\ UNCHANGED <<water_previous_readings, bio_previous_readings, last_ok,
                            in_flight, twin>>

\* Lines 351-414: deliver_collective_pulse.
Community_deliver_collective_pulse(session_id, now) ==
    LET op == "Community.deliver_collective_pulse"
        args == [session_id |-> session_id]
        i == Community_find_session(community.collective_pulse, session_id)
        session == community.collective_pulse[i]
        g == Community_generate_collective_feedback(
                 session, water_previous_readings, bio_previous_readings, now)
        generated == session.feedback_pattern = None
        translate == IF generated THEN g.translate ELSE None
        raised == translate # None /\ Val(translate).outcome # "ok"
        feedback == IF generated THEN g.returned ELSE Val(session.feedback_pattern)
        after == IF generated THEN g.session ELSE session
        reflection ==
            [source_id |-> session_id, participants |-> session.participants]
    IN  IF i = 0 THEN Community_error(op, args, "Session not found")
        ELSE IF ~Community_deliverable(session)
        THEN Community_error(op, args, "Session not in deliverable state")
        ELSE IF raised
        THEN /\ lastCall' = CommunityCall(op, args, Val(translate).outcome,
                                          g.returned, translate)
             /\ community' = [community EXCEPT !.collective_pulse[i] = after]
             /\ UNCHANGED <<water_previous_readings, bio_previous_readings, last_ok,
                            in_flight, twin>>
        ELSE /\ water_previous_readings' =
                    IF generated THEN g.water_previous_readings ELSE water_previous_readings
             /\ bio_previous_readings' =
                    IF generated THEN g.bio_previous_readings ELSE bio_previous_readings
             /\ last_ok' =
                    IF translate = None THEN last_ok
                    ELSE IF Val(translate).op = "Water.translate"
                    THEN [last_ok EXCEPT !.water = ComputedSeverity(Val(translate)),
                                         !.water_type = ReturnedType(Val(translate))]
                    ELSE [last_ok EXCEPT !.bio = ComputedSeverity(Val(translate))]
             /\ community' =
                    [community EXCEPT
                        !.collective_pulse[i] = [after EXCEPT !.status = "active"],
                        !.reflection_circle = Append(@, reflection)]
             /\ lastCall' = CommunityCall(op, args, "ok",
                                [success |-> TRUE, session_id |-> session_id,
                                 participants |-> Len(session.participants),
                                 feedback |-> feedback,
                                 reflection_circle |-> session_id],
                                translate)
             /\ UNCHANGED <<in_flight, twin>>

\* The session ids a caller may pass: those that were handed out and one that
\* never is.
SessionIds == SessionTimes \cup {0}

CallRegisterUser == \E u \in UserIds : Community_register_user(u)

\* The clock does not run backwards: a session id is not below an earlier one.
CallInitiateCollectivePulse ==
    /\ Len(community.collective_pulse) < MaxSessions
    /\ \E u \in UserIds, d \in Domains, t \in SessionTimes :
          /\ \A i \in 1..Len(community.collective_pulse) :
                community.collective_pulse[i].session_id <= t
          /\ Community_initiate_collective_pulse(u, d, t)

CallJoinCollectivePulse ==
    \E u \in UserIds, s \in SessionIds : Community_join_collective_pulse(u, s)

CallDeliverCollectivePulse ==
    \E s \in SessionIds, now \in ClockReadings : Community_deliver_collective_pulse(s, now)

NextCommunity ==
    \/ CallRegisterUser
    \/ CallInitiateCollectivePulse
    \/ CallJoinCollectivePulse
    \/ CallDeliverCollectivePulse

SpecCommunity == Init /\ [][NextCommunity]_vars


\* deliver_collective_pulse has returned a pulse whose feedback came from a
\* translate call.
PulseDeliveredFromTranslator ==
    /\ lastCall.op = "Community.deliver_collective_pulse"
    /\ lastCall.outcome = "ok"
    /\ lastCall.translate # None

\* The record the translator's translate call returned, the record
\* deliver_collective_pulse returned as 'feedback', and the session delivered.
TranslatorRecord == Val(Val(lastCall.translate).feedback)
DeliveredFeedback == Val(lastCall.feedback).feedback
DeliveredSession ==
    community.collective_pulse[
        Community_find_session(community.collective_pulse, lastCall.sensor_data.session_id)]

C30_SessionCalled(call, sessions) ==
    IF call.op \in {"Community.deliver_collective_pulse", "Community.join_collective_pulse"}
    THEN Community_find_session(sessions, call.sensor_data.session_id)
    ELSE 0

\* In every state: translate was called at most once for a session, never for
\* a session whose domain has no registered translator, and never for a
\* session that is still to be delivered.
C30_TranslatedAtMostOnce ==
    \A i \in 1..Len(community.collective_pulse) :
        LET session == community.collective_pulse[i]
        IN  /\ session.translate_calls <= 1
            /\ session.domain \notin DOMAIN translators => session.translate_calls = 0
            /\ session.status \in {"scheduled", "active"}
            /\ session.status = "scheduled" =>
                  session.translate_calls = 0 /\ session.feedback_pattern = None

\* In every step: a deliver that succeeds finds its session scheduled or open
\* and leaves it active; a session that is active is left as it is, and a
\* deliver or join on it returns an error, calls no translator and leaves the
\* previous_readings of both translators unchanged.
C30_DeliveredOnce ==
    LET sessions == community.collective_pulse
        i == C30_SessionCalled(lastCall', sessions)
    IN  /\ \A k \in 1..Len(sessions) :
              sessions[k].status = "active" => community'.collective_pulse[k] = sessions[k]
        /\ (lastCall' # lastCall /\ i # 0 /\ sessions[i].status = "active") =>
              /\ "error" \in DOMAIN Val(lastCall'.feedback)
              /\ lastCall'.translate = None
              /\ community' = community
              /\ water_previous_readings' = water_previous_readings
              /\ bio_previous_readings' = bio_previous_readings
        /\ (lastCall' # lastCall /\ lastCall'.op = "Community.deliver_collective_pulse"
              /\ lastCall'.outcome = "ok") =>
              /\ i # 0
              /\ sessions[i].status \in {"scheduled", "open"}
              /\ community'.collective_pulse[i].status = "active"
              /\ community'.collective_pulse[i].participants = sessions[i].participants
        /\ (lastCall' # lastCall /\ lastCall'.translate # None) =>
              /\ lastCall'.op = "Community.deliver_collective_pulse"
              /\ sessions[i].translate_calls = 0
              /\ sessions[i].domain \in DOMAIN translators

\* C30.  A collective pulse session is delivered at most once.
\* deliver_collective_pulse succeeds only while the session is scheduled or
\* open and sets it active; every later deliver_collective_pulse or
\* join_collective_pulse on the session returns an error without calling a
\* translator or changing the participants; so translate, with its state
\* update, is called at most once per session, and never for a session whose
\* domain has no registered translator.
C30_SessionDeliveredAtMostOnce ==
    /\ []C30_TranslatedAtMostOnce
    /\ [][C30_DeliveredOnce]_vars

\* A water_stress session with two participants was delivered, with one
\* translate call; a second deliver on it has returned the error.
C30_Witness ==
    /\ lastCall.op = "Community.deliver_collective_pulse"
    /\ lastCall.outcome = "error"
    /\ Val(lastCall.feedback) = [error |-> "Session not in deliverable state"]
    /\ LET i == C30_SessionCalled(lastCall, community.collective_pulse)
       IN  /\ i # 0
           /\ community.collective_pulse[i].domain = "water_stress"
           /\ community.collective_pulse[i].status = "active"
           /\ community.collective_pulse[i].translate_calls = 1
           /\ Len(community.collective_pulse[i].participants) = 2
    /\ water_previous_readings.stress_level = Some(0)
    /\ \E k \in 1..Len(community.collective_pulse) :
          /\ community.collective_pulse[k].domain = "soil_health"
          /\ community.collective_pulse[k].status = "active"
          /\ community.collective_pulse[k].translate_calls = 0


---------------------------------------------------------------------------
(* The timestamp stored *)

\* The previous_readings of the translator lastCall was made on.
C25_ReadingsOfCalled ==
    IF lastCall.op = "Water.translate" THEN water_previous_readings
    ELSE bio_previous_readings

\* C25.  After a successful translate call given an explicit timestamp t the
\* stored timestamp equals t, for every numeric t, 0 included; the clock
\* reading is stored only when no timestamp argument was given.
C25_ExplicitTimestampStored ==
    (lastCall.op \in TranslateOps /\ lastCall.outcome = "ok") =>
        /\ lastCall.timestamp # None =>
              C25_ReadingsOfCalled.timestamp = lastCall.timestamp
        /\ lastCall.timestamp = None =>
              Val(C25_ReadingsOfCalled.timestamp) \in ClockReadings


---------------------------------------------------------------------------
(* Monotonicity of the scoring *)

\* C26.  For one configured ecosystem and no additional indicators the
\* stress_level of analyze_water_stress does not increase with soil_moisture
\* over 0 .. optimal_low: no wetter reading in that range scores higher than
\* the reading analysed, and a reading on the stress_threshold does not
\* score 0.
C26_DrierNeverScoresLower ==
    (/\ WaterAnalyzeReturned
     /\ lastCall.sensor_data.additional_indicators = None
     /\ lastCall.sensor_data.soil_moisture <=
            ecosystem_moisture_ranges[lastCall.sensor_data.ecosystem_type].optimal_low) =>
        LET soil_moisture == lastCall.sensor_data.soil_moisture
            ecosystem_type == lastCall.sensor_data.ecosystem_type
            ranges == ecosystem_moisture_ranges[ecosystem_type]
        IN  /\ \A wetter \in soil_moisture..ranges.optimal_low :
                  analyze_water_stress(wetter, ecosystem_type, None).stress_level
                      <= ReturnedSeverity
            /\ soil_moisture = ranges.stress_threshold => ReturnedSeverity # 0


C27_CountIndicators == {"species_count", "bird_species", "insect_orders", "shannon_index"}

\* The indicators present in the data analysed, acoustic_diversity included.
C27_Present(data) ==
    {i \in C27_CountIndicators \cup {"acoustic_diversity"} : data[i] # None}

\* C27.  For one configured ecosystem and a single indicator present among
\* species_count, bird_species, insect_orders, shannon_index, the
\* depletion_level of analyze_biodiversity does not increase with the value of
\* the indicator over 0 .. optimal_low: no higher value in that range scores
\* higher than the value analysed.
C27_LowerNeverScoresLower ==
    \A i \in C27_CountIndicators :
        (/\ BioAnalyzeReturned
         /\ C27_Present(lastCall.sensor_data.biodiversity_data) = {i}
         /\ Val(lastCall.sensor_data.biodiversity_data[i]) <=
                diversity_thresholds[lastCall.sensor_data.ecosystem_type][i].optimal_low) =>
            LET data == lastCall.sensor_data.biodiversity_data
                ecosystem_type == lastCall.sensor_data.ecosystem_type
                th == diversity_thresholds[ecosystem_type][i]
            IN  \A higher \in Val(data[i])..th.optimal_low :
                    analyze_biodiversity([data EXCEPT ![i] = Some(higher)],
                                         ecosystem_type).depletion_level
                        <= ReturnedSeverity


---------------------------------------------------------------------------
(* Recovery patterns *)

RecoveryTypes == {"recovery", "expanding_harmony"}

\* translate has returned a recovery-type pattern.
RecoveryReturned ==
    /\ lastCall.op \in TranslateOps
    /\ lastCall.outcome = "ok"
    /\ ReturnedPattern.type \in RecoveryTypes

\* C28.  A recovery-type pattern (water 'recovery', biodiversity
\* 'expanding_harmony') is returned only on a call whose severity is lower than
\* the previous reading by more than the translator's trend threshold (0.1
\* water, 0.05 biodiversity); so every recovery-type pattern translate returns
\* carries a trend record with direction 'improving'.
C28_RecoveryMeansImproving ==
    RecoveryReturned =>
        /\ lastCall.previous # None
        /\ Val(lastCall.previous) - ReturnedSeverity >
               (IF lastCall.op = "Water.translate" THEN Water_trend_threshold
                ELSE Bio_trend_threshold)
        /\ ReturnedPattern.trend # None
        /\ Val(ReturnedPattern.trend).direction = "improving"


\* C29.  On one WaterStressTranslator, two consecutive successful translate
\* calls never both return pattern type 'recovery', whatever failed calls come
\* between them: a recovery call stores a stress_level below 0.3, and the next
\* successful call returns 'recovery' only if the stress stored before it is
\* above 0.3.  Every step is one call, the one lastCall' records.
C29_NoTwoRecoveriesInARow ==
    /\ [](last_ok.water_type = Some("recovery") =>
              /\ water_previous_readings.stress_level = last_ok.water
              /\ Val(water_previous_readings.stress_level) < Tenth(3))
    /\ [][ (WaterTranslateReturned' /\ ReturnedPattern'.type = "recovery") =>
              /\ last_ok.water_type # Some("recovery")
              /\ Val(water_previous_readings.stress_level) > Tenth(3) ]_vars
    /\ [][ TranslateRaised' => last_ok' = last_ok ]_vars

\* A recovery was returned and stored stress 0.25; a translate call on the
\* water translator has failed since, and the stored stress is as it was.
C29_Witness ==
    /\ last_ok.water_type = Some("recovery")
    /\ lastCall.op = "Water.translate"
    /\ lastCall.outcome = "MissingSensorData"
    /\ water_previous_readings.stress_level = Some(Frac(1, 4))
=============================================================================
